---- MODULE Spec2Model ----
(***************************************************************************)
(* AES-256-GCM secret codec of the starter (lib/encryption): key import    *)
(* from env.ENCRYPTION_KEY, encrypt, decrypt and safeDecrypt, together     *)
(* with the start-up validation of the key in envConfig.ts.                *)
(*                                                                         *)
(* A JavaScript string is a sequence of UTF-16 code units, a byte array a  *)
(* sequence of integers 0..255.  The platform's AES-GCM primitive is       *)
(* replaced by a small authenticated cipher with GCM's shape (a key stream *)
(* added to the plaintext, followed by a 16-byte tag over key, nonce and   *)
(* ciphertext); everything around it (hex parsing, UTF-8, base64, slicing, *)
(* error propagation) is computed as the code computes it.                 *)
(***************************************************************************)
EXTENDS Integers, Sequences, FiniteSets, TLC

(***************************************************************************)
(* Generic helpers on sequences.                                           *)
(***************************************************************************)
Min(a, b) == IF a < b THEN a ELSE b

\* a sequence given as a function, as an explicit tuple
Tuple(f) == SubSeq(f, 1, Len(f))

Rep(s, n) == Tuple([i \in 1..(n * Len(s)) |-> s[((i - 1) % Len(s)) + 1]])

Take(s, n) == SubSeq(s, 1, Min(n, Len(s)))

Drop(s, n) == SubSeq(s, Min(n, Len(s)) + 1, Len(s))

(***************************************************************************)
(* AES-GCM configuration constants.                                        *)
(***************************************************************************)
IV_LENGTH == 12

TAG_LENGTH == 128

TagBytes == TAG_LENGTH \div 8

(***************************************************************************)
(* envConfig.ts: ENCRYPTION_KEY: z.string().length(64).regex(              *)
(* /^[0-9a-f]{64}$/), validated when the module is loaded; a failed        *)
(* validation throws and the process never gets an env object.             *)
(***************************************************************************)
IsLowerHexChar(c) == c \in (48..57) \cup (97..102)

\* .length(64) alone, the .regex(...) left out
SchemaLengthOnly(s) == Len(s) = 64

\* the regex written with the i flag: /^[0-9a-f]{64}$/i
SchemaIgnoreCase(s) ==
    /\ Len(s) = 64
    /\ \A i \in 1..Len(s) : IsLowerHexChar(s[i]) \/ s[i] \in 65..70

EncryptionKeySchema(s) ==
    /\ Len(s) = 64
    /\ \A i \in 1..Len(s) : IsLowerHexChar(s[i])

\* safeParse whose failure is not looked at: the raw string is exported
LoadEnvUnchecked(raw) == [status |-> "ok", ENCRYPTION_KEY |-> raw]

LoadEnv(raw) ==
    IF EncryptionKeySchema(raw)
    THEN [status |-> "ok", ENCRYPTION_KEY |-> raw]
    ELSE [status |-> "threw", ENCRYPTION_KEY |-> <<>>]

(***************************************************************************)
(* getEncryptionKey: env.ENCRYPTION_KEY.match(/.{2}/g), parseInt(byte, 16) *)
(* into a Uint8Array, crypto.subtle.importKey("raw", ...).                 *)
(***************************************************************************)
\* "." matches every code unit but the line terminators
IsLineTerminator(c) == c \in {10, 13, 8232, 8233}

\* String.prototype.match with the global regex /.{2}/g: the list of the
\* non-overlapping matches from left to right, or null when there is none
RECURSIVE MatchPairsFrom(_, _)
MatchPairsFrom(s, i) ==
    IF i + 1 > Len(s) THEN <<>>
    ELSE IF ~IsLineTerminator(s[i]) /\ ~IsLineTerminator(s[i + 1])
         THEN <<<<s[i], s[i + 1]>>>> \o MatchPairsFrom(s, i + 2)
         ELSE MatchPairsFrom(s, i + 1)

MatchPairs(s) == MatchPairsFrom(s, 1)

\* value of a digit in radix 16, -1 for any other code unit
HexDigit(c) ==
    IF c \in 48..57 THEN c - 48
    ELSE IF c \in 97..102 THEN c - 87
    ELSE IF c \in 65..70 THEN c - 55
    ELSE -1

IsStrWhiteSpace(c) ==
    c \in {9, 10, 11, 12, 13, 32, 160, 5760, 8232, 8233, 8239, 8287, 12288, 65279}
          \cup (8192..8202)

NaN == -1000

\* the digits of s read in radix 16 up to the first code unit that is none
RECURSIVE HexPrefix(_, _, _)
HexPrefix(s, acc, seen) ==
    IF s = <<>> \/ HexDigit(s[1]) < 0
    THEN IF seen THEN acc ELSE NaN
    ELSE HexPrefix(Tail(s), acc * 16 + HexDigit(s[1]), TRUE)

\* Number.parseInt(s, 16): leading white space, a sign, a 0x prefix, digits
RECURSIVE ParseInt16(_)
ParseInt16(s) ==
    IF s = <<>> THEN NaN
    ELSE IF IsStrWhiteSpace(s[1]) THEN ParseInt16(Tail(s))
    ELSE LET neg  == s[1] = 45
             body == IF s[1] \in {43, 45} THEN Tail(s) ELSE s
             digs == IF Len(body) >= 2 /\ body[1] = 48 /\ body[2] \in {88, 120}
                     THEN Drop(body, 2) ELSE body
             n    == HexPrefix(digs, 0, FALSE)
         IN  IF n = NaN THEN NaN ELSE IF neg THEN -n ELSE n

\* element conversion of new Uint8Array([...]): NaN becomes 0, else modulo 256
ToUint8(n) == IF n = NaN THEN 0 ELSE n % 256

\* importKey with { name: "AES-GCM", length: 128 }: 16-byte keys only
ImportKeyAes128(keyBytes) ==
    IF Len(keyBytes) = 16
    THEN [kind |-> "value", value |-> keyBytes, error |-> ""]
    ELSE [kind |-> "throw", value |-> <<>>, error |-> "DataError"]

\* crypto.subtle.importKey("raw", bytes, AES-GCM): the handle is the key
\* bytes; raw AES keys of 128, 192 and 256 bits are accepted
ImportKey(keyBytes) ==
    IF Len(keyBytes) \in {16, 24, 32}
    THEN [kind |-> "value", value |-> keyBytes, error |-> ""]
    ELSE [kind |-> "throw", value |-> <<>>, error |-> "DataError"]

getEncryptionKey(encryptionKey) ==
    LET hexPairs == MatchPairs(encryptionKey)
    IN  IF hexPairs = <<>>
        THEN [kind |-> "throw", value |-> <<>>, error |-> "Error"]
        ELSE ImportKey(Tuple([i \in 1..Len(hexPairs) |-> ToUint8(ParseInt16(hexPairs[i]))]))

(***************************************************************************)
(* new TextEncoder().encode(plaintext): UTF-16 code units to UTF-8 bytes;  *)
(* a surrogate that is not part of a pair is encoded as U+FFFD.            *)
(***************************************************************************)
IsHighSurrogate(c) == c \in 55296..56319

IsLowSurrogate(c) == c \in 56320..57343

Utf8Bytes(cp) ==
    IF cp < 128 THEN <<cp>>
    ELSE IF cp < 2048 THEN <<192 + (cp \div 64), 128 + (cp % 64)>>
    ELSE IF cp < 65536
         THEN <<224 + (cp \div 4096), 128 + ((cp \div 64) % 64), 128 + (cp % 64)>>
    ELSE <<240 + (cp \div 262144), 128 + ((cp \div 4096) % 64),
           128 + ((cp \div 64) % 64), 128 + (cp % 64)>>

RECURSIVE TextEncode(_)
TextEncode(s) ==
    IF s = <<>> THEN <<>>
    ELSE IF IsHighSurrogate(s[1]) /\ Len(s) >= 2 /\ IsLowSurrogate(s[2])
         THEN Utf8Bytes(65536 + (s[1] - 55296) * 1024 + (s[2] - 56320))
                  \o TextEncode(Drop(s, 2))
    ELSE IF IsHighSurrogate(s[1]) \/ IsLowSurrogate(s[1])
         THEN <<239, 191, 189>> \o TextEncode(Tail(s))
    ELSE Utf8Bytes(s[1]) \o TextEncode(Tail(s))

(***************************************************************************)
(* new TextDecoder().decode(bytes): the UTF-8 decoder of the Encoding      *)
(* standard with fatal = false (malformed input becomes U+FFFD) and        *)
(* ignoreBOM = false (a leading EF BB BF is removed from the output).      *)
(***************************************************************************)
Utf16Units(cp) ==
    IF cp < 65536 THEN <<cp>>
    ELSE <<55296 + ((cp - 65536) \div 1024), 56320 + ((cp - 65536) % 1024)>>

\* b: bytes, i: next index, cp: code point so far, need: bytes still needed,
\* lo..hi: range allowed for the next continuation byte
RECURSIVE Utf8Decode(_, _, _, _, _, _)
Utf8Decode(b, i, cp, need, lo, hi) ==
    IF i > Len(b) THEN (IF need > 0 THEN <<65533>> ELSE <<>>)
    ELSE LET x == b[i] IN
         IF need = 0
         THEN IF x < 128 THEN <<x>> \o Utf8Decode(b, i + 1, 0, 0, 128, 191)
              ELSE IF x \in 194..223 THEN Utf8Decode(b, i + 1, x - 192, 1, 128, 191)
              ELSE IF x \in 224..239
                   THEN Utf8Decode(b, i + 1, x - 224, 2,
                                   IF x = 224 THEN 160 ELSE 128,
                                   IF x = 237 THEN 159 ELSE 191)
              ELSE IF x \in 240..244
                   THEN Utf8Decode(b, i + 1, x - 240, 3,
                                   IF x = 240 THEN 144 ELSE 128,
                                   IF x = 244 THEN 143 ELSE 191)
              ELSE <<65533>> \o Utf8Decode(b, i + 1, 0, 0, 128, 191)
         ELSE IF x < lo \/ x > hi
              THEN <<65533>> \o Utf8Decode(b, i, 0, 0, 128, 191)
              ELSE IF need = 1
                   THEN Utf16Units(cp * 64 + (x - 128))
                            \o Utf8Decode(b, i + 1, 0, 0, 128, 191)
                   ELSE Utf8Decode(b, i + 1, cp * 64 + (x - 128), need - 1, 128, 191)

HasBOM(b) == Len(b) >= 3 /\ b[1] = 239 /\ b[2] = 187 /\ b[3] = 191

TextDecode(b) == Utf8Decode(b, IF HasBOM(b) THEN 4 ELSE 1, 0, 0, 128, 191)

(***************************************************************************)
(* Base64.  Buffer.from(combined).toString("base64") and                   *)
(* btoa(String.fromCharCode(...combined)) give the same padded text.       *)
(***************************************************************************)
B64Char(v) ==
    IF v < 26 THEN 65 + v
    ELSE IF v < 52 THEN 97 + (v - 26)
    ELSE IF v < 62 THEN 48 + (v - 52)
    ELSE IF v = 62 THEN 43 ELSE 47

Pad == 61

RECURSIVE Base64Encode(_, _)
Base64Encode(b, i) ==
    LET n == Len(b) - i + 1 IN
    IF n <= 0 THEN <<>>
    ELSE IF n = 1
         THEN <<B64Char(b[i] \div 4), B64Char((b[i] % 4) * 16), Pad, Pad>>
    ELSE IF n = 2
         THEN <<B64Char(b[i] \div 4),
                B64Char((b[i] % 4) * 16 + (b[i + 1] \div 16)),
                B64Char((b[i + 1] % 16) * 4), Pad>>
    ELSE <<B64Char(b[i] \div 4),
           B64Char((b[i] % 4) * 16 + (b[i + 1] \div 16)),
           B64Char((b[i + 1] % 16) * 4 + (b[i + 2] \div 64)),
           B64Char(b[i + 2] % 64)>> \o Base64Encode(b, i + 3)

ToBase64(b) == Base64Encode(b, 1)

\* value of a character of the standard alphabet, -1 for any other
B64Value(c) ==
    IF c >= 65 /\ c <= 90 THEN c - 65
    ELSE IF c >= 97 /\ c <= 122 THEN c - 71
    ELSE IF c >= 48 /\ c <= 57 THEN c + 4
    ELSE IF c = 43 THEN 62
    ELSE IF c = 47 THEN 63
    ELSE -1

\* bytes of a run of 6-bit values: 4 values give 3 bytes, a last group of 3
\* gives 2 and of 2 gives 1, the unused low bits are dropped
RECURSIVE SextetsToBytes(_, _)
SextetsToBytes(v, i) ==
    LET n == Len(v) - i + 1 IN
    IF n <= 1 THEN <<>>
    ELSE IF n = 2 THEN <<v[i] * 4 + (v[i + 1] \div 16)>>
    ELSE IF n = 3
         THEN <<v[i] * 4 + (v[i + 1] \div 16),
                (v[i + 1] % 16) * 16 + (v[i + 2] \div 4)>>
    ELSE <<v[i] * 4 + (v[i + 1] \div 16),
           (v[i + 1] % 16) * 16 + (v[i + 2] \div 4),
           (v[i + 2] % 4) * 64 + v[i + 3]>> \o SextetsToBytes(v, i + 4)

\* Buffer.from(s, "base64"): the decoder reads the low byte of each code
\* unit, also takes "-" and "_" of the URL alphabet, skips every other
\* character and stops at the first "="; it never throws
NodeB64Value(c) ==
    IF c % 256 = 45 THEN 62 ELSE IF c % 256 = 95 THEN 63 ELSE B64Value(c % 256)

NodeSextets(s, i) ==
    LET pads == {j \in i..Len(s) : s[j] % 256 = Pad}
        last == IF pads = {} THEN Len(s)
                ELSE (CHOOSE j \in pads : \A k \in pads : j <= k) - 1
        read == Tuple([j \in 1..(last - i + 1) |-> NodeB64Value(s[i + j - 1])])
    IN  SelectSeq(read, LAMBDA v : v >= 0)

BufferFromBase64(s) ==
    [kind |-> "value", value |-> SextetsToBytes(NodeSextets(s, 1), 1), error |-> ""]

\* atob(s) followed by charCodeAt: the forgiving-base64 decode of the HTML
\* standard; throws InvalidCharacterError
IsAsciiWhitespace(c) == c \in {9, 10, 12, 13, 32}

Atob(s) ==
    LET t  == SelectSeq(s, LAMBDA c : ~IsAsciiWhitespace(c))
        n  == Len(t)
        u  == IF n % 4 = 0 /\ n >= 1 /\ t[n] = Pad
              THEN IF n >= 2 /\ t[n - 1] = Pad THEN SubSeq(t, 1, n - 2)
                   ELSE SubSeq(t, 1, n - 1)
              ELSE t
    IN  IF Len(u) % 4 = 1 \/ \E i \in 1..Len(u) : B64Value(u[i]) < 0
        THEN [kind |-> "throw", value |-> <<>>, error |-> "InvalidCharacterError"]
        ELSE [kind |-> "value",
              value |-> SextetsToBytes(Tuple([i \in 1..Len(u) |-> B64Value(u[i])]), 1),
              error |-> ""]

DecodeBase64(hasBuffer, s) == IF hasBuffer THEN BufferFromBase64(s) ELSE Atob(s)

(***************************************************************************)
(* crypto.subtle.encrypt / crypto.subtle.decrypt with                      *)
(* {name: "AES-GCM", iv, tagLength: TAG_LENGTH}.  The stand-in keeps what  *)
(* GCM guarantees: the ciphertext is as long as the plaintext and is       *)
(* followed by TAG_LENGTH / 8 tag bytes; decrypting inverts encrypting     *)
(* under the same key and nonce; the tag depends on every bit of the key,  *)
(* the nonce and the ciphertext and is verified before any plaintext is    *)
(* released; data shorter than the tag, or with a wrong tag, is rejected   *)
(* with an OperationError.                                                 *)
(***************************************************************************)
RECURSIVE WeightedSum(_, _)
WeightedSum(b, n) ==
    IF n = 0 THEN 0 ELSE (2 * (n % 8) + 1) * b[n] + WeightedSum(b, n - 1)

\* the key stream byte at position i is (KeyStream(key, iv) + 7 * i) % 256
KeyStream(key, iv) == (WeightedSum(key, Len(key)) + 3 * WeightedSum(iv, Len(iv))) % 256

AuthTag(key, iv, ct) ==
    LET k == WeightedSum(key, Len(key)) + 5 * Len(key)
        d == WeightedSum(iv \o ct, Len(iv) + Len(ct)) + 11 * Len(ct)
    IN  Tuple([j \in 1..TagBytes |-> ((2 * j - 1) * d + (2 * j + 1) * k + j) % 256])

SubtleEncrypt(key, iv, data) ==
    LET ks == KeyStream(key, iv)
        ct == Tuple([i \in 1..Len(data) |-> (data[i] + ks + 7 * i) % 256])
    IN  ct \o AuthTag(key, iv, ct)

\* a cipher mode without authentication: the trailing tag bytes are cut off
\* and never verified
SubtleDecryptNoTag(key, iv, data) ==
    IF Len(data) < TagBytes
    THEN [kind |-> "throw", value |-> <<>>, error |-> "OperationError"]
    ELSE LET ks == KeyStream(key, iv)
         IN  [kind |-> "value",
              value |-> Tuple([i \in 1..(Len(data) - TagBytes) |->
                                  (data[i] - ks - 7 * i) % 256]),
              error |-> ""]

SubtleDecrypt(key, iv, data) ==
    IF Len(data) < TagBytes
    THEN [kind |-> "throw", value |-> <<>>, error |-> "OperationError"]
    ELSE LET n  == Len(data) - TagBytes
             ct == SubSeq(data, 1, n)
             ks == KeyStream(key, iv)
         IN  IF SubSeq(data, n + 1, Len(data)) # AuthTag(key, iv, ct)
             THEN [kind |-> "throw", value |-> <<>>, error |-> "OperationError"]
             ELSE [kind |-> "value",
                   value |-> Tuple([i \in 1..n |-> (ct[i] - ks - 7 * i) % 256]),
                   error |-> ""]

(***************************************************************************)
(* encrypt(plaintext), with the nonce crypto.getRandomValues returned.     *)
(***************************************************************************)
\* combined.set(iv); combined.set(new Uint8Array(ciphertext), IV_LENGTH)
\* the nonce written behind the ciphertext instead of in front of it
CombineNonceLast(iv, ciphertext) == ciphertext \o iv

Combine(iv, ciphertext) ==
    Tuple([i \in 1..(IV_LENGTH + Len(ciphertext)) |->
              IF i <= Len(iv) THEN iv[i]
              ELSE IF i <= IV_LENGTH THEN 0
              ELSE ciphertext[i - IV_LENGTH]])

encrypt(encryptionKey, iv, plaintext) ==
    LET key == getEncryptionKey(encryptionKey)
    IN  IF key.kind = "throw" THEN key
        ELSE [kind |-> "value",
              value |-> ToBase64(Combine(iv,
                           SubtleEncrypt(key.value, iv, TextEncode(plaintext)))),
              error |-> ""]

(***************************************************************************)
(* decrypt(encryptedData): every failure propagates as it was thrown.      *)
(***************************************************************************)
\* the first 16 bytes taken as the nonce
SliceIvSixteen(combined) == Take(combined, 16)

\* combined.slice(0, IV_LENGTH)
SliceIv(combined) == Take(combined, IV_LENGTH)

\* combined.slice(IV_LENGTH)
SliceCiphertext(combined) == Drop(combined, IV_LENGTH)

\* the body of decrypt from the point where `await getEncryptionKey()` has
\* settled in key
decryptWithKey(key, hasBuffer, encryptedData) ==
    IF key.kind = "throw" THEN key
    ELSE LET combined == DecodeBase64(hasBuffer, encryptedData)
         IN  IF combined.kind = "throw" THEN combined
             ELSE LET plaintextBytes ==
                          SubtleDecrypt(key.value, SliceIv(combined.value),
                                        SliceCiphertext(combined.value))
                  IN  IF plaintextBytes.kind = "throw" THEN plaintextBytes
                      ELSE [kind |-> "value",
                            value |-> TextDecode(plaintextBytes.value),
                            error |-> ""]

decrypt(encryptionKey, hasBuffer, encryptedData) ==
    decryptWithKey(getEncryptionKey(encryptionKey), hasBuffer, encryptedData)

(***************************************************************************)
(* safeDecrypt(encryptedData): try { return await decrypt(...) }           *)
(* catch { return null }.                                                  *)
(***************************************************************************)
Null == [kind |-> "null", value |-> <<>>, error |-> ""]

CatchNull(r) == IF r.kind = "throw" THEN Null ELSE r

safeDecrypt(encryptionKey, hasBuffer, encryptedData) ==
    CatchNull(decrypt(encryptionKey, hasBuffer, encryptedData))

(***************************************************************************)
(* Inputs of the model.                                                    *)
(***************************************************************************)
NumProcs == 2

MaxIssued == 1

MaxConcIssued == 2

Procs == 1..NumProcs

\* "00" * 32 and "0123456789abcdef" * 4
KeyZero == Rep(<<48, 48>>, 32)

KeyMixed == Rep(<<48, 49, 50, 51, 52, 53, 54, 55, 56, 57, 97, 98, 99, 100, 101, 102>>, 4)

WellFormedKeys == {KeyZero, KeyMixed}

\* "", "zz" * 32, "0123456789ABCDEF" * 4, "0" * 63, "0" * 65, "0" * 32,
\* "0x" * 32
MalformedKeys ==
    {<<>>, Rep(<<122, 122>>, 32),
     Rep(<<48, 49, 50, 51, 52, 53, 54, 55, 56, 57, 65, 66, 67, 68, 69, 70>>, 4),
     Rep(<<48>>, 63), Rep(<<48>>, 65), Rep(<<48>>, 32), Rep(<<48, 120>>, 32)}

KeyStrings == WellFormedKeys \cup MalformedKeys

HelloWorld == <<104, 101, 108, 108, 111, 32, 119, 111, 114, 108, 100>>

\* U+00E9, U+20AC, U+1F600: two, three and four bytes of UTF-8
MultiByte == <<233, 8364, 55357, 56832>>

\* U+FEFF followed by "a"
BomText == <<65279, 97>>

Plaintexts == {<<>>, HelloWorld, MultiByte, BomText}

\* values crypto.getRandomValues may return
Nonces ==
    {<<1, 2, 3, 4, 5, 6, 7, 8, 9, 10, 11, 255>>,
     <<200, 0, 17, 34, 51, 68, 85, 102, 119, 136, 153, 128>>}

\* "", "!!!", "A", "QUJD" (3 bytes), "AAAAAAAAAAAAAAA=" (11 bytes) and the
\* base64 text of 28 zero bytes
FixedInputs ==
    {<<>>, <<33, 33, 33>>, <<65>>, <<81, 85, 74, 68>>,
     Rep(<<65>>, 15) \o <<Pad>>, ToBase64(Rep(<<0>>, 28))}

\* bit b of byte i inverted
FlipBit(bytes, i, b) ==
    [bytes EXCEPT ![i] = IF (bytes[i] \div (2 ^ b)) % 2 = 0
                         THEN bytes[i] + 2 ^ b ELSE bytes[i] - 2 ^ b]

\* the bytes an envelope returned by encrypt stands for
EnvelopeBytes(envelope) == Atob(envelope).value

Tampered(envelope, i, b) == ToBase64(FlipBit(EnvelopeBytes(envelope), i, b))

\* one bit of the nonce, of the first byte after it and of the tag
TamperSamples(envelope) ==
    {<<1, 0>>, <<IV_LENGTH + 1, 3>>, <<Len(EnvelopeBytes(envelope)), 7>>}

StripPadding(s) == SelectSeq(s, LAMBDA c : c # Pad)

\* what a caller may hand to decrypt, given the stored envelopes: an
\* envelope as it is, with one bit inverted, with "!" in front, with a line
\* feed behind, without its padding, cut to 8 characters, or a fixed text
DecryptInputs(envelopes) ==
    FixedInputs
      \cup envelopes
      \cup UNION {{Tampered(e, t[1], t[2]) : t \in TamperSamples(e)} : e \in envelopes}
      \cup {<<33>> \o e : e \in envelopes}
      \cup {e \o <<10>> : e \in envelopes}
      \cup {StripPadding(e) : e \in envelopes}
      \cup {Take(e, 8) : e \in envelopes}

(***************************************************************************)
(* Sessions: what auth.api.getSession gives.  null, or a session whose     *)
(* user has the additional field isGlobalAdmin (boolean, not required).    *)
(***************************************************************************)
NoSession == [user |-> "null", isGlobalAdmin |-> "undefined"]

SessionOf(isGlobalAdmin) == [user |-> "user", isGlobalAdmin |-> isGlobalAdmin]

Sessions == {NoSession, SessionOf("undefined"), SessionOf("false"), SessionOf("true")}

\* !value for the values isGlobalAdmin takes
Falsy(isGlobalAdmin) == isGlobalAdmin \in {"undefined", "false"}

\* the result of a server action or of a step of it
Thrown(message) == [kind |-> "throw", success |-> FALSE, error |-> message, rows |-> {}]

Success == [kind |-> "value", success |-> TRUE, error |-> "", rows |-> {}]

Failure(message) == [kind |-> "value", success |-> FALSE, error |-> message, rows |-> {}]

\* verifyGlobalAdmin that asks for a session only
verifyLoggedIn(session) ==
    IF session.user = "null" THEN Thrown("You must be logged in") ELSE Success

verifyGlobalAdmin(session) ==
    IF session.user = "null" THEN Thrown("You must be logged in")
    ELSE IF Falsy(session.isGlobalAdmin)
    THEN Thrown("You must be a global admin to perform this action")
    ELSE Success

\* catch (error) { ... } of a mutating action that lets the error through
RethrowError(r) == r

\* catch (error) { ... } of the mutating actions: every Error becomes
\* { success: false, error: error.message }
CatchError(r) == IF r.kind = "throw" THEN Failure(r.error) ELSE r

(***************************************************************************)
(* Form data.  FormData.get gives null for a field that is not there.      *)
(***************************************************************************)
FormNull == <<-1>>

\* value of a decimal digit, -1 for any other code unit
DecDigit(c) == IF c >= 48 /\ c <= 57 THEN c - 48 ELSE -1

RECURSIVE DecPrefix(_, _, _)
DecPrefix(s, acc, seen) ==
    IF s = <<>> \/ DecDigit(s[1]) < 0
    THEN IF seen THEN acc ELSE NaN
    ELSE DecPrefix(Tail(s), acc * 10 + DecDigit(s[1]), TRUE)

\* Number.parseInt(s, 10); String(null) is "null"
RECURSIVE ParseInt10(_)
ParseInt10(s) ==
    IF s = <<>> \/ s = FormNull THEN NaN
    ELSE IF IsStrWhiteSpace(s[1]) THEN ParseInt10(Tail(s))
    ELSE LET n == DecPrefix(IF s[1] \in {43, 45} THEN Tail(s) ELSE s, 0, FALSE)
         IN  IF n = NaN THEN NaN ELSE IF s[1] = 45 THEN -n ELSE n

\* formData.get("enabled") === "on"
IsOn(field) == field = <<111, 110>>

\* a string that is there and not empty
NonEmpty(field) == field # FormNull /\ field # <<>>

\* lower-case letters, digits and hyphens
IsProviderIdChar(c) == (c >= 97 /\ c <= 122) \/ (c >= 48 /\ c <= 57) \/ c = 45

\* createOAuthProviderFormSchema.parse(data)
createOAuthProviderFormSchema(data) ==
    /\ NonEmpty(data.providerId)
    /\ \A i \in 1..Len(data.providerId) : IsProviderIdChar(data.providerId[i])
    /\ NonEmpty(data.clientId)
    /\ NonEmpty(data.clientSecret)

\* updateOAuthProviderFormSchema.parse(data): providerId is omitted, the
\* client secret may be left empty
updateOAuthProviderFormSchema(data) ==
    /\ ParseInt10(data.id) # NaN
    /\ NonEmpty(data.clientId)
    /\ data.clientSecret # FormNull

(***************************************************************************)
(* The oauth_providers table.  A row has an auto-increment id, the         *)
(* providerId, the clientId (which stands for the other plain columns:     *)
(* name, the URLs and the scopes), the stored clientSecret and enabled.    *)
(***************************************************************************)
SelectById(rows, id) == {r \in rows : r.id = id}

SelectByProviderId(rows, providerId) == {r \in rows : r.providerId = providerId}

\* db.insert(oauthProviders).values(...): provider_id is unique
InsertRow(rows, id, values) ==
    IF SelectByProviderId(rows, values.providerId) # {}
    THEN [kind |-> "throw", rows |-> rows,
          error |-> "UNIQUE constraint failed: oauth_providers.provider_id"]
    ELSE [kind |-> "value", rows |-> rows \cup {[values EXCEPT !.id = id]}, error |-> ""]

\* a set clause that writes null for a clientSecret of undefined
SecretColumnCleared(stored, clientSecret) ==
    IF clientSecret = FormNull THEN <<>> ELSE clientSecret

\* clientSecret in .set({...}): a value of undefined leaves the column
SecretColumn(stored, clientSecret) ==
    IF clientSecret = FormNull THEN stored ELSE clientSecret

\* a set clause that also takes the providerId of the form
UpdateSetWithProviderId(row, data, clientSecret) ==
    [row EXCEPT !.clientId = data.clientId,
                !.enabled = IsOn(data.enabled),
                !.clientSecret = SecretColumn(@, clientSecret),
                !.providerId = IF data.providerId = FormNull THEN @ ELSE data.providerId]

\* .set({ name, clientId, ..., enabled, clientSecret, userInfoUrl }) of
\* updateOAuthProvider; a clientSecret of undefined leaves the column
UpdateSet(row, data, clientSecret) ==
    [row EXCEPT !.clientId = data.clientId,
                !.enabled = IsOn(data.enabled),
                !.clientSecret = SecretColumn(@, clientSecret)]

\* .set({ enabled, updatedAt }) of toggleOAuthProvider
ToggleSet(row, enabled) == [row EXCEPT !.enabled = enabled]

\* db.delete(oauthProviders).where(eq(oauthProviders.id, id))
DeleteWhereId(rows, id) == {r \in rows : r.id # id}

\* "*** DECRYPTION FAILED ***"
DecryptionFailed == <<42, 42, 42, 32, 68, 69, 67, 82, 89, 80, 84, 73, 79, 78, 32, 70, 65, 73, 76, 69, 68, 32, 42, 42, 42>>

\* a listing entry made with decrypt, whose failure is not caught
ListEntryUncaught(key, buffer, row) ==
    LET secret == decrypt(key, buffer, row.clientSecret)
    IN  [kind |-> secret.kind, error |-> secret.error,
         row |-> [row EXCEPT !.clientSecret = secret.value]]

\* { ...provider, clientSecret: (await safeDecrypt(provider.clientSecret))
\*   || "*** DECRYPTION FAILED ***" }
ListEntry(key, buffer, row) ==
    LET secret == safeDecrypt(key, buffer, row.clientSecret)
    IN  [kind |-> "value", error |-> "",
         row |-> [row EXCEPT !.clientSecret =
                    IF secret.kind = "value" /\ secret.value # <<>> THEN secret.value
                    ELSE DecryptionFailed]]

\* Promise.all(providers.map(...)): rejects when one of the entries does
PromiseAll(entries) ==
    IF \E e \in entries : e.kind = "throw"
    THEN Thrown((CHOOSE e \in entries : e.kind = "throw").error)
    ELSE [kind |-> "value", success |-> TRUE, error |-> "",
          rows |-> {e.row : e \in entries}]

\* String(n) of a natural number
RECURSIVE Decimal(_)
Decimal(n) == IF n < 10 THEN <<48 + n>> ELSE Decimal(n \div 10) \o <<48 + (n % 10)>>

\* the FormData that OAuthProviderForm submits for an edit of provider, an
\* entry of the listing: the hidden id, no providerId (the input is
\* disabled), each other input with the entry's value as its default, and
\* the secret the admin typed over the default, if any
EditFormData(provider, typedSecret) ==
    [id |-> Decimal(provider.id), providerId |-> FormNull,
     clientId |-> provider.clientId,
     clientSecret |-> IF typedSecret = FormNull THEN provider.clientSecret
                      ELSE typedSecret,
     enabled |-> IF provider.enabled THEN <<111, 110>> ELSE FormNull]

(***************************************************************************)
(* lib/auth: the provider configurations are loaded once, by the top-level *)
(* await of the module, and handed to genericOAuth.                        *)
(***************************************************************************)
\* db.select().from(oauthProviders).where(eq(oauthProviders.enabled, true))
\*   .catch(() => []): the enabled rows, none when the query is rejected
SelectEnabledOrNone(query, rows) ==
    IF query = "rejected" THEN {} ELSE {x \in rows : x.enabled}

\* a load that decrypts with decrypt: one secret that cannot be decrypted
\* rejects the Promise.all, and nothing is loaded
loadAllOrNothing(key, buffer, query, rows) ==
    LET providers == SelectEnabledOrNone(query, rows)
    IN  IF \E p \in providers : decrypt(key, buffer, p.clientSecret).kind = "throw"
        THEN {}
        ELSE {[providerId |-> p.providerId, clientId |-> p.clientId,
               clientSecret |-> decrypt(key, buffer, p.clientSecret).value] :
                 p \in providers}

\* loadOAuthProvidersFromDB(): of the rows the query gave, those whose
\* secret safeDecrypt turns into a non-empty string, with that string
loadOAuthProvidersFromDB(key, buffer, query, rows) ==
    {[providerId |-> p.providerId, clientId |-> p.clientId,
      clientSecret |-> safeDecrypt(key, buffer, p.clientSecret).value] :
        p \in {x \in SelectEnabledOrNone(query, rows) :
                 LET clientSecret == safeDecrypt(key, buffer, x.clientSecret)
                 IN  clientSecret.kind = "value" /\ clientSecret.value # <<>>}}

\* what the module load gives under a loaded configuration; nothing is
\* loaded when envConfig.ts threw
LoadAuth(config, buffer, query, rows) ==
    IF config.status = "ok"
    THEN loadOAuthProvidersFromDB(config.ENCRYPTION_KEY, buffer, query, rows)
    ELSE {}

\* a handler that reads the table on each request
genericOAuthConfigLive(loaded, config, buffer, rows) ==
    LoadAuth(config, buffer, "rows", rows)

\* genericOAuth({ config: allOAuthProviders }): the array bound at load
genericOAuthConfig(loaded, config, buffer, rows) == loaded

(***************************************************************************)
(* proxy.ts: route protection.                                             *)
(***************************************************************************)
\* "/dashboard"
PathDashboard == <<47, 100, 97, 115, 104, 98, 111, 97, 114, 100>>

\* "/system"
PathSystem == <<47, 115, 121, 115, 116, 101, 109>>

\* "/login"
PathLogin == <<47, 108, 111, 103, 105, 110>>

\* "/register"
PathRegister == <<47, 114, 101, 103, 105, 115, 116, 101, 114>>

\* "?callbackUrl="
CallbackUrlQuery == <<63, 99, 97, 108, 108, 98, 97, 99, 107, 85, 114, 108, 61>>

\* pathname.startsWith(route)
StartsWith(s, prefix) == Len(s) >= Len(prefix) /\ SubSeq(s, 1, Len(prefix)) = prefix

EndsWith(s, suffix) ==
    Len(s) >= Len(suffix) /\ SubSeq(s, Len(s) - Len(suffix) + 1, Len(s)) = suffix

protectedRoutes == {PathDashboard, PathSystem}

globalAdminRoutes == {PathSystem}

authRoutes == {PathLogin, PathRegister}

\* "api/auth", ".well-known/workflow", "_next/static", "_next/image"
ExcludedPrefixes ==
    {<<97, 112, 105, 47, 97, 117, 116, 104>>, <<46, 119, 101, 108, 108, 45, 107, 110, 111, 119, 110, 47, 119, 111, 114, 107, 102, 108, 111, 119>>,
     <<95, 110, 101, 120, 116, 47, 115, 116, 97, 116, 105, 99>>, <<95, 110, 101, 120, 116, 47, 105, 109, 97, 103, 101>>}

\* ".svg", ".png", ".jpg", ".jpeg", ".gif", ".webp"
ExcludedSuffixes ==
    {<<46, 115, 118, 103>>, <<46, 112, 110, 103>>, <<46, 106, 112, 103>>, <<46, 106, 112, 101, 103>>,
     <<46, 103, 105, 102>>, <<46, 119, 101, 98, 112>>}

\* "favicon.ico" of the pattern, whose "." stands for any character
StartsWithFavicon(s) ==
    /\ Len(s) >= 11
    /\ SubSeq(s, 1, 7) = <<102, 97, 118, 105, 99, 111, 110>>
    /\ SubSeq(s, 9, 11) = <<105, 99, 111>>

\* config.matcher: "/((?!api/auth|\\.well-known/workflow|_next/static|
\* _next/image|favicon.ico|.*\\.(?:svg|png|jpg|jpeg|gif|webp)$).*)"; the
\* proxy runs on the paths it matches
Matcher(pathname) ==
    /\ pathname # <<>>
    /\ pathname[1] = 47
    /\ LET rest == Tail(pathname)
       IN  /\ \A prefix \in ExcludedPrefixes : ~StartsWith(rest, prefix)
           /\ ~StartsWithFavicon(rest)
           /\ \A suffix \in ExcludedSuffixes : ~EndsWith(rest, suffix)

\* digit n of %XX
UpperHex(n) == IF n < 10 THEN 48 + n ELSE 55 + n

\* the bytes the application/x-www-form-urlencoded serializer leaves as they
\* are: ASCII letters and digits, "*", "-", "." and "_"
IsFormSafe(b) ==
    \/ b >= 48 /\ b <= 57
    \/ b >= 65 /\ b <= 90
    \/ b >= 97 /\ b <= 122
    \/ b \in {42, 45, 46, 95}

RECURSIVE FormEncodeBytes(_, _)
FormEncodeBytes(b, i) ==
    IF i > Len(b) THEN <<>>
    ELSE (IF IsFormSafe(b[i]) THEN <<b[i]>>
          ELSE IF b[i] = 32 THEN <<43>>
          ELSE <<37, UpperHex(b[i] \div 16), UpperHex(b[i] % 16)>>)
         \o FormEncodeBytes(b, i + 1)

\* the value of a URLSearchParams entry as the URL's query carries it
FormUrlEncode(s) == FormEncodeBytes(TextEncode(s), 1)

\* new URL(path, request.url).href: the origin of the request and the path
UrlOn(origin, path) == origin \o path

Next_ == [kind |-> "next", location |-> <<>>]

Redirect(location) == [kind |-> "redirect", location |-> location]

\* a proxy without the global admin check
proxyNoAdminCheck(pathname, origin, session) ==
    IF (\E route \in protectedRoutes : StartsWith(pathname, route)) /\ session.user = "null"
    THEN Redirect(UrlOn(origin, PathLogin) \o CallbackUrlQuery \o FormUrlEncode(pathname))
    ELSE IF (\E route \in authRoutes : StartsWith(pathname, route)) /\ session.user # "null"
    THEN Redirect(UrlOn(origin, PathDashboard))
    ELSE Next_

\* proxy(request), from the point where getSession has settled in session
proxy(pathname, origin, session) ==
    LET isProtectedRoute == \E route \in protectedRoutes : StartsWith(pathname, route)
        isGlobalAdminRoute == \E route \in globalAdminRoutes : StartsWith(pathname, route)
        isAuthRoute == \E route \in authRoutes : StartsWith(pathname, route)
    IN  IF isProtectedRoute /\ session.user = "null"
        THEN Redirect(UrlOn(origin, PathLogin) \o CallbackUrlQuery \o FormUrlEncode(pathname))
        ELSE IF isGlobalAdminRoute /\ session.user # "null" /\ session.isGlobalAdmin # "true"
        THEN Redirect(UrlOn(origin, PathDashboard))
        ELSE IF isAuthRoute /\ session.user # "null"
        THEN Redirect(UrlOn(origin, PathDashboard))
        ELSE Next_

\* SystemLayout: redirect("/login?callbackUrl=/system") without a user,
\* redirect("/dashboard") for a user who is no global admin, else the page
SystemLayout(session) ==
    IF session.user = "null" THEN "redirect:/login?callbackUrl=/system"
    ELSE IF Falsy(session.isGlobalAdmin) THEN "redirect:/dashboard"
    ELSE "SystemPage"

\* the pages under app/system: the system page at "/system"
IsSystemPage(pathname) == pathname \in {PathSystem, PathSystem \o <<47>>}

(***************************************************************************)
(* The login page: useSafeCallbackUrl gives the path that LoginForm hands  *)
(* to router.push after a sign-in.  router.push(href) resolves href        *)
(* against the URL of the document, new URL(href, location.href), and      *)
(* leaves the site when the origin of the result is another one.           *)
(***************************************************************************)
\* callbackUrl is what useQueryState("callbackUrl") gives: the decoded
\* value of the query parameter, FormNull when the query has none
useSafeCallbackUrl(defaultPath, callbackUrl) ==
    IF callbackUrl # FormNull /\ StartsWith(callbackUrl, <<47>>)
    THEN callbackUrl
    ELSE defaultPath

\* the first index from `from` on of an element of set in s, Len(s) + 1
\* when there is none
IndexFrom(s, from, set) ==
    LET I == {i \in from..Len(s) : s[i] \in set}
    IN  IF I = {} THEN Len(s) + 1 ELSE CHOOSE i \in I : \A j \in I : i <= j

\* URL parsing drops leading and trailing C0 controls and spaces, and every
\* tab and newline
UrlInput(s) ==
    LET kept  == {i \in 1..Len(s) : s[i] > 32}
        first == IF kept = {} THEN 1 ELSE CHOOSE i \in kept : \A j \in kept : i <= j
        last  == IF kept = {} THEN 0 ELSE CHOOSE i \in kept : \A j \in kept : j <= i
    IN  SelectSeq(SubSeq(s, first, last), LAMBDA c : c \notin {9, 10, 13})

IsAsciiAlpha(c) == (c >= 65 /\ c <= 90) \/ (c >= 97 /\ c <= 122)

AsciiLower(s) == [i \in 1..Len(s) |-> IF s[i] >= 65 /\ s[i] <= 90 THEN s[i] + 32 ELSE s[i]]

\* the length of the scheme of u with its colon, 0 when u has no scheme
SchemeLength(u) ==
    LET colon == IndexFrom(u, 1, {58})
    IN  IF /\ u # <<>>
           /\ IsAsciiAlpha(u[1])
           /\ colon <= Len(u)
           /\ \A i \in 2..(colon - 1) :
                 IsAsciiAlpha(u[i]) \/ (u[i] >= 48 /\ u[i] <= 57) \/ u[i] \in {43, 45, 46}
        THEN colon
        ELSE 0

\* new URL(...) succeeded with this origin
OriginOf(origin) == [kind |-> "url", origin |-> origin]

\* new URL(...) threw TypeError: Invalid URL
InvalidUrl == [kind |-> "throw", origin |-> <<>>]

\* the origin of scheme (with its colon) and the authority that starts at
\* index from of u, behind any further slashes; the host is what follows
\* the last @ up to the path, query or fragment
AuthorityOrigin(scheme, u, from) ==
    LET slashes == {i \in from..Len(u) : \A j \in from..i : u[j] \in {47, 92}}
        start   == from + Cardinality(slashes)
        stop    == IndexFrom(u, start, {47, 92, 63, 35})
        ats     == {i \in start..(stop - 1) : u[i] = 64}
        host    == IF ats = {} THEN start
                   ELSE 1 + CHOOSE i \in ats : \A j \in ats : j <= i
    IN  IF host >= stop
        THEN InvalidUrl
        ELSE OriginOf(AsciiLower(scheme \o <<47, 47>> \o SubSeq(u, host, stop - 1)))

\* a reference without a scheme, resolved against a document on origin: two
\* leading slashes or backslashes start an authority, anything else is a
\* path, query or fragment on the same origin
RelativeOrigin(origin, scheme, rest) ==
    IF Len(rest) >= 2 /\ rest[1] \in {47, 92} /\ rest[2] \in {47, 92}
    THEN AuthorityOrigin(scheme, rest, 1)
    ELSE OriginOf(origin)

\* "http:", "https:", "ws:", "wss:", "ftp:"
SpecialSchemes ==
    {<<104, 116, 116, 112, 58>>, <<104, 116, 116, 112, 115, 58>>, <<119, 115, 58>>,
     <<119, 115, 115, 58>>, <<102, 116, 112, 58>>}

\* the origin of new URL(href, base) for a base document on origin, an
\* http or https URL
UrlOrigin(href, origin) ==
    LET u      == UrlInput(href)
        length == SchemeLength(u)
        scheme == AsciiLower(SubSeq(u, 1, length))
        base   == SubSeq(origin, 1, IndexFrom(origin, 1, {58}))
    IN  IF length = 0 THEN RelativeOrigin(origin, base, u)
        ELSE IF scheme = base THEN RelativeOrigin(origin, base, SubSeq(u, length + 1, Len(u)))
        ELSE IF scheme \in SpecialSchemes THEN AuthorityOrigin(scheme, u, length + 1)
        ELSE OriginOf(<<110, 117, 108, 108>>)

\* router.push(href) on a document on origin: the origin of the document
\* the browser shows afterwards; a href that is no URL throws and leaves
\* the document as it is
routerPush(href, origin) ==
    LET url == UrlOrigin(href, origin)
    IN  IF url.kind = "throw" THEN origin ELSE url.origin

(***************************************************************************)
(* The seed script: seedGlobalAdmin reads GLOBAL_ADMIN_EMAIL and           *)
(* GLOBAL_ADMIN_PASSWORD from the validated environment, looks the user    *)
(* up by email, and either marks the row it finds as global admin or signs *)
(* the user up through better-auth and marks the new row.  A row of the    *)
(* user table carries the password hash of its credential account.         *)
(***************************************************************************)
IsAsciiDigit(c) == c >= 48 /\ c <= 57

IsAsciiAlnum(c) == IsAsciiAlpha(c) \/ IsAsciiDigit(c)

\* the texts between the dots of s
Labels(s) ==
    LET dots == {0, Len(s) + 1} \cup {i \in 1..Len(s) : s[i] = 46}
    IN  {SubSeq(s, i + 1, j - 1) :
            <<i, j>> \in {d \in dots \X dots :
                             d[1] < d[2] /\ \A k \in dots : ~(d[1] < k /\ k < d[2])}}

\* z.email(): a local part of letters, digits and _ ' + - . that neither
\* starts with a dot nor holds two in a row and ends in none of . and ',
\* an @, and a domain of labels with a top level label of two or more
\* letters
GlobalAdminEmailSchema(s) ==
    LET at     == IndexFrom(s, 1, {64})
        name   == SubSeq(s, 1, at - 1)
        domain == SubSeq(s, at + 1, Len(s))
        dots   == {i \in 1..Len(domain) : domain[i] = 46}
        top    == IF dots = {} THEN domain
                  ELSE SubSeq(domain, 1 + CHOOSE i \in dots : \A j \in dots : j <= i,
                              Len(domain))
    IN  /\ at > 1 /\ at < Len(s)
        /\ s[1] # 46
        /\ \A i \in 1..(Len(s) - 1) : ~(s[i] = 46 /\ s[i + 1] = 46)
        /\ \A i \in 1..Len(name) : IsAsciiAlnum(name[i]) \/ name[i] \in {95, 39, 43, 45, 46}
        /\ name[Len(name)] \notin {46, 39}
        /\ dots # {}
        /\ \A l \in Labels(domain) :
              /\ l # <<>>
              /\ IsAsciiAlnum(l[1])
              /\ \A i \in 1..Len(l) : IsAsciiAlnum(l[i]) \/ l[i] = 45
        /\ Len(top) >= 2
        /\ \A i \in 1..Len(top) : IsAsciiAlpha(top[i])

\* z.string().min(12).regex(/[A-Z]/).regex(/[a-z]/).regex(/[0-9]/)
\*   .regex(/[^A-Za-z0-9]/)
GlobalAdminPasswordSchema(s) ==
    /\ Len(s) >= 12
    /\ \E i \in 1..Len(s) : s[i] >= 65 /\ s[i] <= 90
    /\ \E i \in 1..Len(s) : s[i] >= 97 /\ s[i] <= 122
    /\ \E i \in 1..Len(s) : IsAsciiDigit(s[i])
    /\ \E i \in 1..Len(s) : ~IsAsciiAlnum(s[i])

\* the key better-auth derives from a password and a salt
PasswordKey(salt, password) ==
    Tuple([i \in 1..Len(password) |-> (31 * password[i] + 7 * salt + i) % 65536])

\* the stored hash: the salt, then the key
HashPassword(salt, password) == <<salt>> \o PasswordKey(salt, password)

VerifyPassword(hash, password) == hash = HashPassword(hash[1], password)

\* signIn.email succeeds for a row with this email whose hash verifies
CanSignIn(rows, email, password) ==
    \E u \in rows : u.email = email /\ VerifyPassword(u.password, password)

MinPasswordLength == 8

\* auth.api.signUpEmail({ body }): a new row with the next id, not a global
\* admin, or an error when the email is taken or the password too short
signUpEmail(rows, email, password, salt) ==
    IF Len(password) < MinPasswordLength
    THEN [kind |-> "throw", rows |-> rows, id |-> 0]
    ELSE IF \E u \in rows : u.email = email
    THEN [kind |-> "throw", rows |-> rows, id |-> 0]
    ELSE [kind |-> "value", id |-> Cardinality(rows) + 1,
          rows |-> rows \cup {[id |-> Cardinality(rows) + 1, email |-> email,
                               password |-> HashPassword(salt, password),
                               isGlobalAdmin |-> FALSE, emailVerified |-> FALSE]}]

\* db.update(user).set({ isGlobalAdmin: true }).where(eq(user.email, adminEmail))
Promote(rows, email) ==
    {IF u.email = email THEN [u EXCEPT !.isGlobalAdmin = TRUE] ELSE u : u \in rows}

\* db.update(user).set({ isGlobalAdmin: true, emailVerified: true })
\*   .where(eq(user.id, result.user.id))
MarkCreated(rows, id) ==
    {IF u.id = id THEN [u EXCEPT !.isGlobalAdmin = TRUE, !.emailVerified = TRUE] ELSE u :
        u \in rows}

(***************************************************************************)
(* State.                                                                  *)
(*   hasBuffer   typeof Buffer !== "undefined" in this runtime             *)
(*   processEnv  process.env.ENCRYPTION_KEY                                *)
(*   env         what loading envConfig.ts gave                            *)
(*   calls       the calls in flight, one per caller, with their locals    *)
(*   issued      every envelope encrypt has returned, with the key, nonce  *)
(*               and plaintext of the call (kept by the callers, it        *)
(*               outlives a restart of the process)                        *)
(*   oauthProviders     the rows of the oauth_providers table              *)
(*   nextId             the id the table gives to the next inserted row    *)
(*   allOAuthProviders  the const of lib/auth, loaded with the module      *)
(*   providersQuery     how the query of that load ended: "rows" or        *)
(*                      "rejected"                                         *)
(*   acts        the server actions in flight, one per caller              *)
(*   request     the page request being served                             *)
(*   login       the login page open in a browser                          *)
(*   user        the rows of the user table                                *)
(*   seed        the run of the seed script                                *)
(***************************************************************************)
VARIABLES hasBuffer, processEnv, env, calls, issued,
          oauthProviders, nextId, allOAuthProviders, providersQuery, acts, request,
          login, user, seed

vars == <<hasBuffer, processEnv, env, calls, issued,
          oauthProviders, nextId, allOAuthProviders, providersQuery, acts, request,
          login, user, seed>>

codecVars == <<hasBuffer, processEnv, env, calls, issued>>

siteVars == <<login, user, seed>>

appVars ==
    <<oauthProviders, nextId, allOAuthProviders, providersQuery, acts, request,
      login, user, seed>>

adminVars == <<oauthProviders, nextId, allOAuthProviders, providersQuery, acts, request>>

NumAdmins == 2

MaxProviders == 2

MaxConcProviders == 2

AdminProcs == 1..NumAdmins

NoForm ==
    [id |-> FormNull, providerId |-> FormNull, clientId |-> FormNull,
     clientSecret |-> FormNull, enabled |-> FormNull]

NoResult == [kind |-> "none", success |-> FALSE, error |-> "", rows |-> {}]

ActIdle ==
    [pc |-> "idle", op |-> "none", form |-> NoForm, id |-> NaN, enabled |-> FALSE,
     session |-> NoSession, clientSecret |-> FormNull, result |-> NoResult]

RequestIdle ==
    [pc |-> "idle", pathname |-> <<>>, origin |-> <<>>, proxied |-> FALSE,
     session |-> NoSession, response |-> Next_, page |-> "none"]

\* no login page is open
LoginIdle ==
    [pc |-> "idle", origin |-> <<>>, query |-> FormNull, callbackUrl |-> <<>>,
     location |-> <<>>]

\* the seed script is not running
SeedIdle ==
    [pc |-> "idle", adminEmail |-> <<>>, adminPassword |-> <<>>, userId |-> 0]

None == [kind |-> "none", value |-> <<>>, error |-> ""]

Idle ==
    [pc |-> "idle", op |-> "none", arg |-> <<>>, key |-> None, iv |-> <<>>,
     pending |-> None, result |-> None]

IssuedEnvelopes == {e.envelope : e \in issued}

Init ==
    /\ hasBuffer \in BOOLEAN
    /\ processEnv \in KeyStrings
    /\ env = LoadEnv(processEnv)
    /\ calls = [p \in Procs |-> Idle]
    /\ issued = {}
    /\ oauthProviders = {}
    /\ nextId = 1
    /\ providersQuery = "rows"
    /\ allOAuthProviders = LoadAuth(env, hasBuffer, providersQuery, oauthProviders)
    /\ acts = [a \in AdminProcs |-> ActIdle]
    /\ request = RequestIdle
    /\ login = LoginIdle
    /\ user = {}
    /\ seed = SeedIdle

\* iv and cipher result kept in module-level variables that every call in
\* flight reads
StoreShared(p, rec) ==
    [q \in Procs |->
        IF q = p THEN rec
        ELSE IF calls[q].pc \in {"importKey", "cipher"} /\ rec.pc = "cipher"
             THEN [calls[q] EXCEPT !.iv = rec.iv, !.pending = rec.pending]
             ELSE calls[q]]

\* the locals of call p become rec; no other call is touched
Store(p, rec) == [calls EXCEPT ![p] = rec]

\* safeDecrypt without its try / catch
SettleUncaught(op, r) == r

\* what the caller of op gets when the body of decrypt or encrypt ends in r
Settle(op, r) == IF op = "safeDecrypt" THEN CatchNull(r) ELSE r

\* encrypt(plaintext) is called: runs up to `await getEncryptionKey()`
CallEncrypt(p, plaintext, max) ==
    /\ env.status = "ok"
    /\ calls[p].pc = "idle"
    /\ Cardinality(issued) + Cardinality({q \in Procs : calls[q].op = "encrypt"}) < max
    /\ calls' = Store(p, [Idle EXCEPT !.pc = "importKey", !.op = "encrypt",
                                      !.arg = plaintext,
                                      !.key = getEncryptionKey(env.ENCRYPTION_KEY)])
    /\ UNCHANGED <<hasBuffer, processEnv, env, issued>>
    /\ UNCHANGED appVars

\* decrypt(data) or safeDecrypt(data) is called on one of the given inputs:
\* runs up to the same await
CallDecrypt(p, inputs) ==
    /\ env.status = "ok"
    /\ calls[p].pc = "idle"
    /\ \E data \in inputs, op \in {"decrypt", "safeDecrypt"} :
           calls' = Store(p, [Idle EXCEPT !.pc = "importKey", !.op = op, !.arg = data,
                                          !.key = getEncryptionKey(env.ENCRYPTION_KEY)])
    /\ UNCHANGED <<hasBuffer, processEnv, env, issued>>
    /\ UNCHANGED appVars

\* the key promise settles: a rejection ends the call, otherwise the call
\* runs up to `await crypto.subtle.encrypt(...)` / `decrypt(...)`
KeySettled(p) ==
    LET c == calls[p] IN
    /\ c.pc = "importKey"
    /\ IF c.key.kind = "throw"
       THEN calls' = Store(p, [c EXCEPT !.pc = "done", !.result = Settle(c.op, c.key)])
       ELSE IF c.op = "encrypt"
       THEN \E iv \in Nonces :
                calls' = Store(p, [c EXCEPT
                    !.pc = "cipher", !.iv = iv,
                    !.pending = [kind |-> "value",
                                 value |-> SubtleEncrypt(c.key.value, iv, TextEncode(c.arg)),
                                 error |-> ""]])
       ELSE LET combined == DecodeBase64(hasBuffer, c.arg) IN
            IF combined.kind = "throw"
            THEN calls' = Store(p, [c EXCEPT !.pc = "done",
                                             !.result = Settle(c.op, combined)])
            ELSE calls' = Store(p, [c EXCEPT
                    !.pc = "cipher", !.iv = SliceIv(combined.value),
                    !.pending = SubtleDecrypt(c.key.value, SliceIv(combined.value),
                                              SliceCiphertext(combined.value))])
    /\ UNCHANGED <<hasBuffer, processEnv, env, issued>>
    /\ UNCHANGED appVars

\* the cipher promise settles: the call runs to its return
CipherSettled(p) ==
    LET c == calls[p] IN
    /\ c.pc = "cipher"
    /\ IF c.op = "encrypt"
       THEN LET envelope == ToBase64(Combine(c.iv, c.pending.value)) IN
            /\ calls' = Store(p, [c EXCEPT !.pc = "done",
                                    !.result = [kind |-> "value", value |-> envelope,
                                                error |-> ""]])
            /\ issued' = issued \cup {[key |-> env.ENCRYPTION_KEY, iv |-> c.iv,
                                       plaintext |-> c.arg, envelope |-> envelope]}
       ELSE /\ calls' = Store(p, [c EXCEPT !.pc = "done",
                    !.result = Settle(c.op,
                        IF c.pending.kind = "throw" THEN c.pending
                        ELSE [kind |-> "value", value |-> TextDecode(c.pending.value),
                              error |-> ""])])
            /\ UNCHANGED issued
    /\ UNCHANGED <<hasBuffer, processEnv, env>>
    /\ UNCHANGED appVars

\* the caller has taken the result
Return(p) ==
    /\ calls[p].pc = "done"
    /\ calls' = Store(p, Idle)
    /\ UNCHANGED <<hasBuffer, processEnv, env, issued>>
    /\ UNCHANGED appVars

\* the process is started again with ENCRYPTION_KEY = raw: envConfig.ts and
\* lib/auth are loaded anew, the query of the load ends as given, the calls
\* in flight are gone, the stored envelopes and the table stay
Start(raw, query) ==
    /\ \A p \in Procs : calls[p].pc = "idle"
    /\ \A a \in AdminProcs : acts[a].pc = "idle"
    /\ request.pc = "idle"
    /\ processEnv' = raw
    /\ env' = LoadEnv(raw)
    /\ calls' = [p \in Procs |-> Idle]
    /\ providersQuery' = query
    /\ allOAuthProviders' = LoadAuth(LoadEnv(raw), hasBuffer, query, oauthProviders)
    /\ acts' = [a \in AdminProcs |-> ActIdle]
    /\ request' = RequestIdle
    /\ UNCHANGED <<hasBuffer, issued, oauthProviders, nextId>>
    /\ UNCHANGED siteVars

\* a restart with the database up
Restart(raw) == Start(raw, "rows")

\* a restart while the database does not answer
RestartWithoutDatabase(raw) == Start(raw, "rejected")

\* one caller at a time, every input
Next ==
    \/ \E plaintext \in Plaintexts : CallEncrypt(1, plaintext, MaxIssued)
    \/ CallDecrypt(1, DecryptInputs(IssuedEnvelopes))
    \/ KeySettled(1)
    \/ CipherSettled(1)
    \/ Return(1)
    \/ \E raw \in KeyStrings : Restart(raw)

Spec == Init /\ [][Next]_vars

(***************************************************************************)
(* Concurrent callers: every interleaving of the calls of NumProcs callers *)
(* at their awaits, under a well-formed key.                               *)
(***************************************************************************)
ConcPlaintexts == {MultiByte}

ConcInputs(envelopes) ==
    envelopes \cup {Tampered(e, IV_LENGTH + 1, 3) : e \in envelopes}

InitConc ==
    /\ hasBuffer \in BOOLEAN
    /\ processEnv = KeyMixed
    /\ env = LoadEnv(processEnv)
    /\ calls = [p \in Procs |-> Idle]
    /\ issued = {}
    /\ oauthProviders = {}
    /\ nextId = 1
    /\ providersQuery = "rows"
    /\ allOAuthProviders = LoadAuth(env, hasBuffer, providersQuery, oauthProviders)
    /\ acts = [a \in AdminProcs |-> ActIdle]
    /\ request = RequestIdle
    /\ login = LoginIdle
    /\ user = {}
    /\ seed = SeedIdle

NextConc ==
    \E p \in Procs :
        \/ \E plaintext \in ConcPlaintexts : CallEncrypt(p, plaintext, MaxConcIssued)
        \/ CallDecrypt(p, ConcInputs(IssuedEnvelopes))
        \/ KeySettled(p)
        \/ CipherSettled(p)
        \/ Return(p)

SpecConc == InitConc /\ [][NextConc]_vars

(***************************************************************************)
(* Server actions of app/system/actions.ts.  An action runs from one await *)
(* to the next in one step: getSession, the select, encrypt (its two       *)
(* awaits, which touch nothing shared, as one), the write, the             *)
(* Promise.all of the listing.                                              *)
(***************************************************************************)
\* "a", "b" and "A!"
ProviderA == <<97>>

ProviderB == <<98>>

ProviderBad == <<65, 33>>

\* "c"
ClientC == <<99>>

\* "d"
ClientD == <<100>>

\* "s"
SecretS == <<115>>

\* "on"
On == <<111, 110>>

Form(id, providerId, clientId, clientSecret, enabled) ==
    [id |-> id, providerId |-> providerId, clientId |-> clientId,
     clientSecret |-> clientSecret, enabled |-> enabled]

\* a secret pasted with a byte order mark in front: U+FEFF, "s"
SecretBom == <<65279, 115>>

CreateForms ==
    {Form(FormNull, ProviderA, ClientC, SecretS, On),
     Form(FormNull, ProviderB, ClientC, SecretS, FormNull),
     Form(FormNull, ProviderB, ClientC, SecretBom, On),
     Form(FormNull, ProviderBad, ClientC, SecretS, On),
     Form(FormNull, ProviderA, ClientC, <<>>, On)}

\* ids "1", "9" (no such row) and "x"
UpdateForms ==
    {Form(<<49>>, ProviderB, ClientD, <<>>, FormNull),
     Form(<<49>>, FormNull, ClientC, SecretS, On),
     Form(<<57>>, FormNull, ClientC, <<>>, On),
     Form(<<120>>, FormNull, ClientC, <<>>, On)}

\* the rows there may be, and an id without a row
RowIds(max) == 1..(max + 1)

\* the nonce encrypt draws in a server action
ActionNonces == {CHOOSE iv \in Nonces : iv[1] = 1}

\* the locals of action a become rec
StoreAct(a, rec) == [acts EXCEPT ![a] = rec]

\* the action ends and r goes to its caller; the listing has no try / catch
Finish(a, r) ==
    acts' = StoreAct(a, [acts[a] EXCEPT !.pc = "done",
                 !.result = IF acts[a].op = "list" THEN r ELSE CatchError(r)])

InFlightCreates == Cardinality({a \in AdminProcs : acts[a].op = "create"})

\* a server action is called: runs up to `await auth.api.getSession(...)`
CallAction(a, op, form, id, enabled, max) ==
    /\ env.status = "ok"
    /\ acts[a].pc = "idle"
    /\ op = "create" => nextId + InFlightCreates <= max
    /\ acts' = StoreAct(a, [ActIdle EXCEPT !.pc = "getSession", !.op = op,
                                           !.form = form, !.id = id, !.enabled = enabled])
    /\ UNCHANGED <<oauthProviders, nextId, allOAuthProviders, providersQuery, request>>
    /\ UNCHANGED codecVars
    /\ UNCHANGED siteVars

\* getSession settles: verifyGlobalAdmin, then the form is read and parsed
\* and the action runs up to its select
SessionSettled(a, sessions) ==
    LET c == acts[a] IN
    /\ c.pc = "getSession"
    /\ \E session \in sessions :
          LET verified == verifyGlobalAdmin(session)
              withSession == [c EXCEPT !.session = session]
          IN  IF verified.kind = "throw"
              THEN acts' = StoreAct(a, [withSession EXCEPT !.pc = "done",
                              !.result = IF c.op = "list" THEN verified
                                         ELSE CatchError(verified)])
              ELSE IF c.op = "create" /\ ~createOAuthProviderFormSchema(c.form)
              THEN acts' = StoreAct(a, [withSession EXCEPT !.pc = "done",
                              !.result = Failure("Validation failed")])
              ELSE IF c.op = "update" /\ ~updateOAuthProviderFormSchema(c.form)
              THEN acts' = StoreAct(a, [withSession EXCEPT !.pc = "done",
                              !.result = Failure("Validation failed")])
              ELSE acts' = StoreAct(a, [withSession EXCEPT !.pc = "select",
                              !.id = IF c.op = "update" THEN ParseInt10(c.form.id) ELSE @])
    /\ UNCHANGED <<oauthProviders, nextId, allOAuthProviders, providersQuery, request>>
    /\ UNCHANGED codecVars
    /\ UNCHANGED siteVars

\* the select settles with the rows of the table as they are now
SelectSettled(a) ==
    LET c == acts[a] IN
    /\ c.pc = "select"
    /\ IF c.op = "create"
       THEN IF SelectByProviderId(oauthProviders, c.form.providerId) # {}
            THEN Finish(a, Failure("A provider with this Provider ID already exists"))
            ELSE acts' = StoreAct(a, [c EXCEPT !.pc = "encrypt"])
       ELSE IF c.op = "list"
       THEN Finish(a, PromiseAll({ListEntry(env.ENCRYPTION_KEY, hasBuffer, r) :
                                     r \in oauthProviders}))
       ELSE IF SelectById(oauthProviders, c.id) = {}
       THEN Finish(a, Failure("Provider not found"))
       ELSE IF c.op = "update" /\ c.form.clientSecret # <<>>
       THEN acts' = StoreAct(a, [c EXCEPT !.pc = "encrypt"])
       ELSE acts' = StoreAct(a, [c EXCEPT !.pc = "write"])
    /\ UNCHANGED <<oauthProviders, nextId, allOAuthProviders, providersQuery, request>>
    /\ UNCHANGED codecVars
    /\ UNCHANGED siteVars

\* `await encrypt(validated.clientSecret)` settles
EncryptSettled(a) ==
    LET c == acts[a] IN
    /\ c.pc = "encrypt"
    /\ \E iv \in ActionNonces :
          LET secret == encrypt(env.ENCRYPTION_KEY, iv, c.form.clientSecret)
          IN  IF secret.kind = "throw"
              THEN Finish(a, Thrown(secret.error))
              ELSE acts' = StoreAct(a, [c EXCEPT !.pc = "write",
                                                 !.clientSecret = secret.value])
    /\ UNCHANGED <<oauthProviders, nextId, allOAuthProviders, providersQuery, request>>
    /\ UNCHANGED codecVars
    /\ UNCHANGED siteVars

\* the insert, update or delete is done on the table as it is now, then
\* revalidatePath("/system") and return { success: true }
WriteSettled(a) ==
    LET c == acts[a] IN
    /\ c.pc = "write"
    /\ IF c.op = "create"
       THEN LET inserted == InsertRow(oauthProviders, nextId,
                               [id |-> nextId, providerId |-> c.form.providerId,
                                clientId |-> c.form.clientId,
                                clientSecret |-> c.clientSecret,
                                enabled |-> IsOn(c.form.enabled)])
            IN  IF inserted.kind = "throw"
                THEN /\ Finish(a, Thrown(inserted.error))
                     /\ UNCHANGED <<oauthProviders, nextId>>
                ELSE /\ Finish(a, Success)
                     /\ oauthProviders' = inserted.rows
                     /\ nextId' = nextId + 1
       ELSE /\ Finish(a, Success)
            /\ nextId' = nextId
            /\ oauthProviders' =
                 IF c.op = "update"
                 THEN {IF r.id = c.id THEN UpdateSet(r, c.form, c.clientSecret) ELSE r :
                          r \in oauthProviders}
                 ELSE IF c.op = "toggle"
                 THEN {IF r.id = c.id THEN ToggleSet(r, c.enabled) ELSE r :
                          r \in oauthProviders}
                 ELSE DeleteWhereId(oauthProviders, c.id)
    /\ UNCHANGED <<allOAuthProviders, providersQuery, request>>
    /\ UNCHANGED codecVars
    /\ UNCHANGED siteVars

\* the admin opens the edit form on an entry of the listing on the page,
\* types a new secret or leaves the input as it is, and saves:
\* updateOAuthProvider is called with the form's data
SaveEdit(a, typedSecrets) ==
    /\ acts[a].pc = "done"
    /\ acts[a].op = "list"
    /\ acts[a].result.kind = "value"
    /\ \E provider \in acts[a].result.rows, typedSecret \in typedSecrets :
          acts' = StoreAct(a, [ActIdle EXCEPT !.pc = "getSession", !.op = "update",
                                  !.form = EditFormData(provider, typedSecret)])
    /\ UNCHANGED <<oauthProviders, nextId, allOAuthProviders, providersQuery, request>>
    /\ UNCHANGED codecVars
    /\ UNCHANGED siteVars

\* the caller has taken the result
ReturnAction(a) ==
    /\ acts[a].pc = "done"
    /\ acts' = StoreAct(a, ActIdle)
    /\ UNCHANGED <<oauthProviders, nextId, allOAuthProviders, providersQuery, request>>
    /\ UNCHANGED codecVars
    /\ UNCHANGED siteVars

\* the calls of one caller, with every form, id and session
CallAny(a, max) ==
    \/ \E form \in CreateForms : CallAction(a, "create", form, NaN, FALSE, max)
    \/ \E form \in UpdateForms : CallAction(a, "update", form, NaN, FALSE, max)
    \/ \E id \in RowIds(max) : CallAction(a, "delete", NoForm, id, FALSE, max)
    \/ \E id \in RowIds(max), enabled \in BOOLEAN :
           CallAction(a, "toggle", NoForm, id, enabled, max)
    \/ CallAction(a, "list", NoForm, NaN, FALSE, max)

\* server actions run under Node
InitAdmin ==
    /\ hasBuffer = TRUE
    /\ processEnv \in WellFormedKeys
    /\ env = LoadEnv(processEnv)
    /\ calls = [p \in Procs |-> Idle]
    /\ issued = {}
    /\ oauthProviders = {}
    /\ nextId = 1
    /\ providersQuery = "rows"
    /\ allOAuthProviders = LoadAuth(env, hasBuffer, providersQuery, oauthProviders)
    /\ acts = [a \in AdminProcs |-> ActIdle]
    /\ request = RequestIdle
    /\ login = LoginIdle
    /\ user = {}
    /\ seed = SeedIdle

\* one administrator session or other caller at a time, and restarts under
\* either key
NextAdmin ==
    \/ CallAny(1, MaxProviders)
    \/ SessionSettled(1, Sessions)
    \/ SelectSettled(1)
    \/ EncryptSettled(1)
    \/ WriteSettled(1)
    \/ ReturnAction(1)
    \/ \E raw \in WellFormedKeys : Restart(raw)
    \/ \E raw \in WellFormedKeys : RestartWithoutDatabase(raw)

SpecAdmin == InitAdmin /\ [][NextAdmin]_vars

(***************************************************************************)
(* The admin page: a global admin adds providers, loads the page, which    *)
(* lists them, and edits entries of the listing through the form.          *)
(***************************************************************************)
NextEdit ==
    \/ \E form \in {Form(FormNull, ProviderA, ClientC, SecretS, On),
                     Form(FormNull, ProviderB, ClientC, SecretS, FormNull)} :
          CallAction(1, "create", form, NaN, FALSE, MaxProviders)
    \/ CallAction(1, "list", NoForm, NaN, FALSE, MaxProviders)
    \/ SaveEdit(1, {FormNull, SecretS})
    \/ SessionSettled(1, {SessionOf("true")})
    \/ SelectSettled(1)
    \/ EncryptSettled(1)
    \/ WriteSettled(1)
    \/ ReturnAction(1)
    \/ \E raw \in WellFormedKeys : Restart(raw)

SpecEdit == InitAdmin /\ [][NextEdit]_vars

(***************************************************************************)
(* Concurrent administrators: every interleaving of the server actions of  *)
(* NumAdmins callers at their awaits, each with a global admin session.    *)
(***************************************************************************)
ConcCreateForms ==
    {Form(FormNull, ProviderA, ClientC, SecretS, On),
     Form(FormNull, ProviderB, ClientC, SecretS, FormNull)}

ConcUpdateForms == {Form(<<49>>, ProviderB, ClientC, <<>>, FormNull)}

CallConc(a) ==
    \/ \E form \in ConcCreateForms :
           CallAction(a, "create", form, NaN, FALSE, MaxConcProviders)
    \/ \E form \in ConcUpdateForms :
           CallAction(a, "update", form, NaN, FALSE, MaxConcProviders)
    \/ CallAction(a, "delete", NoForm, 1, FALSE, MaxConcProviders)
    \/ CallAction(a, "toggle", NoForm, 1, TRUE, MaxConcProviders)

InitAdminConc ==
    /\ hasBuffer = TRUE
    /\ processEnv = KeyMixed
    /\ env = LoadEnv(processEnv)
    /\ calls = [p \in Procs |-> Idle]
    /\ issued = {}
    /\ oauthProviders = {}
    /\ nextId = 1
    /\ providersQuery = "rows"
    /\ allOAuthProviders = LoadAuth(env, hasBuffer, providersQuery, oauthProviders)
    /\ acts = [a \in AdminProcs |-> ActIdle]
    /\ request = RequestIdle
    /\ login = LoginIdle
    /\ user = {}
    /\ seed = SeedIdle

NextAdminConc ==
    \E a \in AdminProcs :
        \/ CallConc(a)
        \/ SessionSettled(a, {SessionOf("true")})
        \/ SelectSettled(a)
        \/ EncryptSettled(a)
        \/ WriteSettled(a)
        \/ ReturnAction(a)

SpecAdminConc == InitAdminConc /\ [][NextAdminConc]_vars

(***************************************************************************)
(* Page requests: the matcher decides whether the proxy runs, the proxy    *)
(* awaits getSession and answers, and a request that goes on is routed;    *)
(* the system page is rendered inside SystemLayout, which asks for the     *)
(* session again.                                                          *)
(***************************************************************************)
\* "/", "/system", "/system/", "/system/providers", "/systematic",
\* "/system/logo.png", "/dashboard", "/dashboard/a%20b",
\* "/dashboard/x+y&z=1", "/dashboard/chart.png", "/dashboards", "/login",
\* "/register", "/api/auth/session", "/todos", "/System", "/favicon.ico",
\* "/_next/static/x.js"
Pathnames ==
    {<<47>>,
     <<47, 115, 121, 115, 116, 101, 109>>,
     <<47, 115, 121, 115, 116, 101, 109, 47>>,
     <<47, 115, 121, 115, 116, 101, 109, 47, 112, 114, 111, 118, 105, 100, 101, 114, 115>>,
     <<47, 115, 121, 115, 116, 101, 109, 97, 116, 105, 99>>,
     <<47, 115, 121, 115, 116, 101, 109, 47, 108, 111, 103, 111, 46, 112, 110, 103>>,
     <<47, 100, 97, 115, 104, 98, 111, 97, 114, 100>>,
     <<47, 100, 97, 115, 104, 98, 111, 97, 114, 100, 47, 97, 37, 50, 48, 98>>,
     <<47, 100, 97, 115, 104, 98, 111, 97, 114, 100, 47, 120, 43, 121, 38, 122, 61, 49>>,
     <<47, 100, 97, 115, 104, 98, 111, 97, 114, 100, 47, 99, 104, 97, 114, 116, 46, 112, 110, 103>>,
     <<47, 100, 97, 115, 104, 98, 111, 97, 114, 100, 115>>,
     <<47, 108, 111, 103, 105, 110>>,
     <<47, 114, 101, 103, 105, 115, 116, 101, 114>>,
     <<47, 97, 112, 105, 47, 97, 117, 116, 104, 47, 115, 101, 115, 115, 105, 111, 110>>,
     <<47, 116, 111, 100, 111, 115>>,
     <<47, 83, 121, 115, 116, 101, 109>>,
     <<47, 102, 97, 118, 105, 99, 111, 110, 46, 105, 99, 111>>,
     <<47, 95, 110, 101, 120, 116, 47, 115, 116, 97, 116, 105, 99, 47, 120, 46, 106, 115>>}

\* "http://localhost:3000", "https://app.example"
Origins ==
    {<<104, 116, 116, 112, 58, 47, 47, 108, 111, 99, 97, 108, 104, 111, 115, 116, 58, 51, 48, 48, 48>>,
     <<104, 116, 116, 112, 115, 58, 47, 47, 97, 112, 112, 46, 101, 120, 97, 109, 112, 108, 101>>}

\* a request arrives whose cookies stand for session
RequestArrives(pathname, origin, session) ==
    /\ env.status = "ok"
    /\ request.pc = "idle"
    /\ request' = IF Matcher(pathname)
                  THEN [RequestIdle EXCEPT !.pc = "getSession", !.pathname = pathname,
                                           !.origin = origin, !.session = session,
                                           !.proxied = TRUE]
                  ELSE [RequestIdle EXCEPT !.pc = "route", !.pathname = pathname,
                                           !.origin = origin, !.session = session]
    /\ UNCHANGED <<oauthProviders, nextId, allOAuthProviders, providersQuery, acts>>
    /\ UNCHANGED codecVars
    /\ UNCHANGED siteVars

\* getSession settles in the proxy, which redirects or lets the request on
ProxySettled ==
    /\ request.pc = "getSession"
    /\ LET response == proxy(request.pathname, request.origin, request.session)
       IN  request' = [request EXCEPT
                         !.pc = IF response.kind = "next" THEN "route" ELSE "done",
                         !.response = response]
    /\ UNCHANGED <<oauthProviders, nextId, allOAuthProviders, providersQuery, acts>>
    /\ UNCHANGED codecVars
    /\ UNCHANGED siteVars

\* the request is routed; SystemLayout gets the session of the request
Routed ==
    /\ request.pc = "route"
    /\ request' = [request EXCEPT !.pc = "done",
                     !.page = IF IsSystemPage(request.pathname)
                              THEN SystemLayout(request.session) ELSE "other"]
    /\ UNCHANGED <<oauthProviders, nextId, allOAuthProviders, providersQuery, acts>>
    /\ UNCHANGED codecVars
    /\ UNCHANGED siteVars

\* the response has been sent
Responded ==
    /\ request.pc = "done"
    /\ request' = RequestIdle
    /\ UNCHANGED <<oauthProviders, nextId, allOAuthProviders, providersQuery, acts>>
    /\ UNCHANGED codecVars
    /\ UNCHANGED siteVars

NextProxy ==
    \/ \E pathname \in Pathnames, origin \in Origins, session \in Sessions :
           RequestArrives(pathname, origin, session)
    \/ ProxySettled
    \/ Routed
    \/ Responded

SpecProxy == InitAdminConc /\ [][NextProxy]_vars

\* no callbackUrl in the query, and the decoded values
\* "", "/", "/dashboard", "/system", "/dashboard?tab=1", "dashboard",
\* "//evil.example", "//evil.example/dashboard", "/\\evil.example",
\* "\\/evil.example", "///evil.example", "/\t/evil.example",
\* "/\n/evil.example", "//user@evil.example", "//EVIL.example",
\* "//app.example/dashboard", "/@evil.example", "/evil.example",
\* " //evil.example", "https://evil.example", "javascript:alert(1)", "//",
\* "/?//evil.example"
CallbackUrls ==
    {FormNull,
     <<>>,
     <<47>>,
     <<47, 100, 97, 115, 104, 98, 111, 97, 114, 100>>,
     <<47, 115, 121, 115, 116, 101, 109>>,
     <<47, 100, 97, 115, 104, 98, 111, 97, 114, 100, 63, 116, 97, 98, 61, 49>>,
     <<100, 97, 115, 104, 98, 111, 97, 114, 100>>,
     <<47, 47, 101, 118, 105, 108, 46, 101, 120, 97, 109, 112, 108, 101>>,
     <<47, 47, 101, 118, 105, 108, 46, 101, 120, 97, 109, 112, 108, 101, 47, 100, 97, 115, 104, 98, 111, 97, 114, 100>>,
     <<47, 92, 101, 118, 105, 108, 46, 101, 120, 97, 109, 112, 108, 101>>,
     <<92, 47, 101, 118, 105, 108, 46, 101, 120, 97, 109, 112, 108, 101>>,
     <<47, 47, 47, 101, 118, 105, 108, 46, 101, 120, 97, 109, 112, 108, 101>>,
     <<47, 9, 47, 101, 118, 105, 108, 46, 101, 120, 97, 109, 112, 108, 101>>,
     <<47, 10, 47, 101, 118, 105, 108, 46, 101, 120, 97, 109, 112, 108, 101>>,
     <<47, 47, 117, 115, 101, 114, 64, 101, 118, 105, 108, 46, 101, 120, 97, 109, 112, 108, 101>>,
     <<47, 47, 69, 86, 73, 76, 46, 101, 120, 97, 109, 112, 108, 101>>,
     <<47, 47, 97, 112, 112, 46, 101, 120, 97, 109, 112, 108, 101, 47, 100, 97, 115, 104, 98, 111, 97, 114, 100>>,
     <<47, 64, 101, 118, 105, 108, 46, 101, 120, 97, 109, 112, 108, 101>>,
     <<47, 101, 118, 105, 108, 46, 101, 120, 97, 109, 112, 108, 101>>,
     <<32, 47, 47, 101, 118, 105, 108, 46, 101, 120, 97, 109, 112, 108, 101>>,
     <<104, 116, 116, 112, 115, 58, 47, 47, 101, 118, 105, 108, 46, 101, 120, 97, 109, 112, 108, 101>>,
     <<106, 97, 118, 97, 115, 99, 114, 105, 112, 116, 58, 97, 108, 101, 114, 116, 40, 49, 41>>,
     <<47, 47>>,
     <<47, 63, 47, 47, 101, 118, 105, 108, 46, 101, 120, 97, 109, 112, 108, 101>>}

\* "evil.example", the host of another site
EvilHost == <<101, 118, 105, 108, 46, 101, 120, 97, 109, 112, 108, 101>>

\* the login page is opened on origin with this callbackUrl in its query:
\* LoginForm renders and calls useSafeCallbackUrl("/")
LoginPageLoads(origin, query) ==
    /\ login.pc = "idle"
    /\ login' = [pc |-> "form", origin |-> origin, query |-> query,
                 callbackUrl |-> useSafeCallbackUrl(<<47>>, query),
                 location |-> origin]
    /\ UNCHANGED <<user, seed>>
    /\ UNCHANGED adminVars
    /\ UNCHANGED codecVars

\* signIn.email has settled: onSuccess pushes callbackUrl, onError shows
\* the message and stays on the page
SignInSettled(ok) ==
    /\ login.pc = "form"
    /\ login' = IF ok
                THEN [login EXCEPT !.pc = "pushed",
                                   !.location = routerPush(login.callbackUrl, login.origin)]
                ELSE [login EXCEPT !.pc = "error"]
    /\ UNCHANGED <<user, seed>>
    /\ UNCHANGED adminVars
    /\ UNCHANGED codecVars

\* the tab is closed
LoginCloses ==
    /\ login.pc \in {"pushed", "error"}
    /\ login' = LoginIdle
    /\ UNCHANGED <<user, seed>>
    /\ UNCHANGED adminVars
    /\ UNCHANGED codecVars

NextLogin ==
    \/ \E origin \in Origins, query \in CallbackUrls : LoginPageLoads(origin, query)
    \/ \E ok \in BOOLEAN : SignInSettled(ok)
    \/ LoginCloses

SpecLogin == InitAdminConc /\ [][NextLogin]_vars

\* "a@x.io", "b@x.io"
EmailA == <<97, 64, 120, 46, 105, 111>>

EmailB == <<98, 64, 120, 46, 105, 111>>

\* the two above and "admin", "a@x", ".a@x.io"
AdminEmails == {EmailA, EmailB, <<97, 100, 109, 105, 110>>, <<97, 64, 120>>, <<46, 97, 64, 120, 46, 105, 111>>}

\* "Passw0rd!one", "Passw0rd!two"
PasswordOne == <<80, 97, 115, 115, 119, 48, 114, 100, 33, 111, 110, 101>>

PasswordTwo == <<80, 97, 115, 115, 119, 48, 114, 100, 33, 116, 119, 111>>

\* the two above and "Passw0rd!", "passw0rd!one", "Password1one"
AdminPasswords ==
    {PasswordOne, PasswordTwo, <<80, 97, 115, 115, 119, 48, 114, 100, 33>>,
     <<112, 97, 115, 115, 119, 48, 114, 100, 33, 111, 110, 101>>, <<80, 97, 115, 115, 119, 111, 114, 100, 49, 111, 110, 101>>}

\* "visitor1", "short"
VisitorPasswords == {<<118, 105, 115, 105, 116, 111, 114, 49>>, <<115, 104, 111, 114, 116>>}

Salts == {1, 2}

MaxUsers == 2

\* pnpm db:seed is run with these values in .env.local: envConfig.ts is
\* loaded, and seedGlobalAdmin runs up to its select
SeedStarts(email, password) ==
    /\ seed.pc = "idle"
    /\ seed' = [pc |-> IF GlobalAdminEmailSchema(email) /\ GlobalAdminPasswordSchema(password)
                       THEN "select" ELSE "failed",
                adminEmail |-> email, adminPassword |-> password, userId |-> 0]
    /\ UNCHANGED <<login, user>>
    /\ UNCHANGED adminVars
    /\ UNCHANGED codecVars

\* the select by email has settled: a row that is no global admin is
\* updated next, a global admin ends the run, no row leads to the sign-up
SeedSelectSettled ==
    /\ seed.pc = "select"
    /\ LET existingUser == {u \in user : u.email = seed.adminEmail}
       IN  seed' = [seed EXCEPT !.pc =
                       IF existingUser = {} THEN "signUp"
                       ELSE IF \E u \in existingUser : ~u.isGlobalAdmin THEN "update"
                       ELSE "done"]
    /\ UNCHANGED <<login, user>>
    /\ UNCHANGED adminVars
    /\ UNCHANGED codecVars

\* the update of the row that was found has settled
SeedUpdateSettled ==
    /\ seed.pc = "update"
    /\ user' = Promote(user, seed.adminEmail)
    /\ seed' = [seed EXCEPT !.pc = "done"]
    /\ UNCHANGED login
    /\ UNCHANGED adminVars
    /\ UNCHANGED codecVars

\* seedAuth.api.signUpEmail has settled
SeedSignUpSettled(salt) ==
    /\ seed.pc = "signUp"
    /\ LET result == signUpEmail(user, seed.adminEmail, seed.adminPassword, salt)
       IN  /\ user' = result.rows
           /\ seed' = IF result.kind = "throw" THEN [seed EXCEPT !.pc = "failed"]
                      ELSE [seed EXCEPT !.pc = "mark", !.userId = result.id]
    /\ UNCHANGED login
    /\ UNCHANGED adminVars
    /\ UNCHANGED codecVars

\* the update of the new row has settled
SeedMarkSettled ==
    /\ seed.pc = "mark"
    /\ user' = MarkCreated(user, seed.userId)
    /\ seed' = [seed EXCEPT !.pc = "done"]
    /\ UNCHANGED login
    /\ UNCHANGED adminVars
    /\ UNCHANGED codecVars

\* process.exit
SeedExits ==
    /\ seed.pc \in {"done", "failed"}
    /\ seed' = SeedIdle
    /\ UNCHANGED <<login, user>>
    /\ UNCHANGED adminVars
    /\ UNCHANGED codecVars

\* a visitor submits the register page, which refuses a password of fewer
\* than 8 characters itself
Register(email, password, salt) ==
    /\ Cardinality(user) < MaxUsers
    /\ Len(password) >= 8
    /\ signUpEmail(user, email, password, salt).kind = "value"
    /\ user' = signUpEmail(user, email, password, salt).rows
    /\ UNCHANGED <<login, seed>>
    /\ UNCHANGED adminVars
    /\ UNCHANGED codecVars

NextSeed ==
    \/ \E email \in AdminEmails, password \in AdminPasswords : SeedStarts(email, password)
    \/ SeedSelectSettled
    \/ SeedUpdateSettled
    \/ \E salt \in Salts : SeedSignUpSettled(salt)
    \/ SeedMarkSettled
    \/ SeedExits
    \/ \E email \in {EmailA}, password \in VisitorPasswords, salt \in Salts :
          Register(email, password, salt)

SpecSeed == InitAdminConc /\ [][NextSeed]_vars

(***************************************************************************)
(* encrypt on every kind of string: the plaintexts above and strings with  *)
(* a surrogate outside a pair, which are no UTF-16 form of any text.       *)
(***************************************************************************)
\* "a" and a high surrogate; a low surrogate and "b"
LoneHigh == <<97, 55357>>

LoneLow == <<56832, 98>>

AnyStrings == Plaintexts \cup {LoneHigh, LoneLow}

NextEncrypt ==
    \/ \E plaintext \in AnyStrings : CallEncrypt(1, plaintext, MaxIssued)
    \/ KeySettled(1)
    \/ CipherSettled(1)
    \/ Return(1)
    \/ \E raw \in KeyStrings : Restart(raw)

SpecEncrypt == Init /\ [][NextEncrypt]_vars

(***************************************************************************)
(* Vocabulary of the properties.                                           *)
(***************************************************************************)
Returned(p) == calls[p].pc = "done"

IsDecryptOp(op) == op \in {"decrypt", "safeDecrypt"}

\* the call failed as seen by its caller
Failed(c) == IF c.op = "safeDecrypt" THEN c.result = Null ELSE c.result.kind = "throw"

\* no surrogate outside a pair: the UTF-16 form of a UTF-8 string
RECURSIVE IsWellFormed(_)
IsWellFormed(s) ==
    IF s = <<>> THEN TRUE
    ELSE IF IsHighSurrogate(s[1])
         THEN Len(s) >= 2 /\ IsLowSurrogate(s[2]) /\ IsWellFormed(Drop(s, 2))
    ELSE ~IsLowSurrogate(s[1]) /\ IsWellFormed(Tail(s))

\* number of UTF-8 bytes of a well-formed string, counted per code unit
RECURSIVE Utf8Length(_)
Utf8Length(s) ==
    IF s = <<>> THEN 0
    ELSE (IF s[1] < 128 THEN 1
          ELSE IF s[1] < 2048 THEN 2
          ELSE IF IsHighSurrogate(s[1]) \/ IsLowSurrogate(s[1]) THEN 2
          ELSE 3) + Utf8Length(Tail(s))

\* base64 text in the strict sense: whole groups of four characters of the
\* standard alphabet, the last group padded with at most two "="
IsBase64(s) ==
    /\ Len(s) % 4 = 0
    /\ \A i \in 1..Len(s) :
          \/ B64Value(s[i]) >= 0
          \/ /\ s[i] = Pad
             /\ i >= Len(s) - 1
             /\ i >= 3
             /\ \A j \in (i + 1)..Len(s) : s[j] = Pad

\* number of bytes a strict base64 text stands for
Base64ByteLength(s) == (Len(s) \div 4) * 3 - Len(SelectSeq(s, LAMBDA c : c = Pad))

\* C1: for every UTF-8 string p and well-formed key, a decrypt call on the
\* envelope encrypt returned for p under that key returns exactly p
C1_RoundTrip ==
    \A p \in Procs : \A e \in issued :
        (/\ Returned(p)
         /\ calls[p].op = "decrypt"
         /\ calls[p].arg = e.envelope
         /\ e.key = env.ENCRYPTION_KEY
         /\ IsWellFormed(e.plaintext))
        => calls[p].result = [kind |-> "value", value |-> e.plaintext, error |-> ""]

\* C2: when encrypt has returned an envelope, decrypt of that envelope with
\* any one bit of its decoded bytes inverted (decryptWithKey under the key
\* of the process) is rejected and safeDecrypt of it, which is CatchNull of
\* what decrypt gives, is null; and every decrypt or safeDecrypt call made
\* on such an input ends that way
C2_TamperDetection ==
    /\ \A p \in Procs :
          (Returned(p) /\ calls[p].op = "encrypt" /\ calls[p].result.kind = "value")
          => LET bytes == EnvelopeBytes(calls[p].result.value)
                 key == getEncryptionKey(env.ENCRYPTION_KEY)
             IN
             \A i \in 1..Len(bytes), b \in 0..7 :
                LET t == ToBase64(FlipBit(bytes, i, b))
                    d == decryptWithKey(key, hasBuffer, t)
                IN  /\ d.kind = "throw"
                    /\ d.error = "OperationError"
                    /\ CatchNull(d) = Null
    /\ \A p \in Procs : \A e \in issued :
          (/\ Returned(p)
           /\ IsDecryptOp(calls[p].op)
           /\ \E pos \in TamperSamples(e.envelope) :
                 calls[p].arg = Tampered(e.envelope, pos[1], pos[2]))
          => /\ Failed(calls[p])
             /\ calls[p].op = "decrypt" => calls[p].result.error = "OperationError"

C2_Witness ==
    \E p \in Procs : \E e \in issued :
        /\ Returned(p)
        /\ calls[p].op = "decrypt"
        /\ e.key = env.ENCRYPTION_KEY
        /\ calls[p].arg = Tampered(e.envelope, 1, 0)
        /\ calls[p].result.kind = "throw"

\* a character that no base64 text contains: not of the alphabet, not the
\* padding character, not white space
HasForeignCharacter(s) ==
    \E i \in 1..Len(s) : B64Value(s[i]) < 0 /\ s[i] # Pad /\ ~IsAsciiWhitespace(s[i])

\* C3: a decrypt call fails, and a safeDecrypt call returns null, on every
\* input that is not base64 text (here: that holds a character no base64
\* text contains), that is base64 text of fewer than 12 bytes, or that is
\* empty
C3_MalformedInputFails ==
    \A p \in Procs :
        (/\ Returned(p)
         /\ IsDecryptOp(calls[p].op)
         /\ \/ HasForeignCharacter(calls[p].arg)
            \/ IsBase64(calls[p].arg) /\ Base64ByteLength(calls[p].arg) < IV_LENGTH
            \/ calls[p].arg = <<>>)
        => Failed(calls[p])

\* C4: a safeDecrypt call never throws; it returns what decrypt returns for
\* the same input when decrypt succeeds and null when decrypt fails
C4_SafeDecryptNeverThrows ==
    \A p \in Procs :
        (Returned(p) /\ calls[p].op = "safeDecrypt")
        => LET d == decrypt(env.ENCRYPTION_KEY, hasBuffer, calls[p].arg)
           IN  /\ calls[p].result.kind # "throw"
               /\ d.kind = "value" => calls[p].result = d
               /\ d.kind = "throw" => calls[p].result = Null

C4_Witness ==
    \E p \in Procs :
        /\ Returned(p)
        /\ calls[p].op = "safeDecrypt"
        /\ calls[p].result = Null
        /\ decrypt(env.ENCRYPTION_KEY, hasBuffer, calls[p].arg).kind = "throw"
        /\ calls[p].arg \in {<<33>> \o e : e \in IssuedEnvelopes}

\* C5: every failed decrypt call reports the same error kind as every
\* other failing decrypt would: no two failures can be told apart
C5_OneErrorKind ==
    \A p \in Procs :
        (Returned(p) /\ calls[p].op = "decrypt" /\ calls[p].result.kind = "throw")
        => \A data \in DecryptInputs(IssuedEnvelopes) :
              LET d == decrypt(env.ENCRYPTION_KEY, hasBuffer, data)
              IN  d.kind = "throw" => d.error = calls[p].result.error

\* a key string of a length other than 64 or with a character that is no
\* hexadecimal digit
IsMalformedKey(s) == Len(s) # 64 \/ \E i \in 1..Len(s) : HexDigit(s[i]) < 0

C7_WrongKeyRejected ==
    \A p \in Procs : \A e \in issued :
        (/\ Returned(p)
         /\ IsDecryptOp(calls[p].op)
         /\ calls[p].arg = e.envelope
         /\ e.key # env.ENCRYPTION_KEY)
        => Failed(calls[p])

C7_Witness ==
    \E p \in Procs : \E e \in issued :
        /\ Returned(p)
        /\ calls[p].op = "decrypt"
        /\ calls[p].arg = e.envelope
        /\ e.key # env.ENCRYPTION_KEY
        /\ calls[p].result.kind = "throw"

\* C8: the envelope encrypt returns for a UTF-8 string p is the base64 text
\* of 12 + (UTF-8 length of p) + 16 bytes that start with the nonce of the
\* call: 39 bytes for "hello world", 28 for the empty string
C8_EnvelopeSize ==
    \A e \in issued :
        IsWellFormed(e.plaintext)
        => LET b == EnvelopeBytes(e.envelope)
           IN  /\ IsBase64(e.envelope)
               /\ Base64ByteLength(e.envelope) = Len(b)
               /\ Len(b) = 12 + Utf8Length(e.plaintext) + 16
               /\ Take(b, 12) = e.iv
               /\ e.plaintext = HelloWorld => Len(b) = 39
               /\ e.plaintext = <<>> => Len(b) = 28

C8_Witness ==
    \E e \in issued :
        /\ e.plaintext = HelloWorld
        /\ Len(BufferFromBase64(e.envelope).value) = 39

Alone(c) ==
    IF c.op = "encrypt" THEN encrypt(env.ENCRYPTION_KEY, c.iv, c.arg)
    ELSE IF c.op = "decrypt" THEN decrypt(env.ENCRYPTION_KEY, hasBuffer, c.arg)
    ELSE safeDecrypt(env.ENCRYPTION_KEY, hasBuffer, c.arg)

\* a step changes the locals of at most one call and nothing the calls read
StepIsLocal ==
    /\ \E p \in Procs : \A q \in Procs \ {p} : calls'[q] = calls[q]
    /\ UNCHANGED <<hasBuffer, processEnv, env>>

\* C10: in every interleaving of concurrent encrypt, decrypt and
\* safeDecrypt calls under one key, each call returns what it returns when
\* run alone, and no step of a call changes the locals of another call or
\* the key and runtime the calls read
C10_CallsIndependent ==
    /\ [](\A p \in Procs : Returned(p) => calls[p].result = Alone(calls[p]))
    /\ [][StepIsLocal]_vars

C10_Witness ==
    /\ Returned(1)
    /\ calls[1].op = "decrypt"
    /\ calls[1].result.kind = "value"
    /\ calls[2].op = "encrypt"
    /\ calls[2].pc = "cipher"
    /\ calls[2].iv # SliceIv(EnvelopeBytes(calls[1].arg))

\* an encrypt call that has drawn its nonce and awaits the cipher
DrewNonce(p) == calls[p].op = "encrypt" /\ calls[p].pc = "cipher"

\* C11 as stated: across the encrypt calls under one key, no call draws a
\* nonce that an earlier or a concurrent call drew
C11_NoNonceReuse ==
    \A p \in Procs :
        DrewNonce(p)
        => /\ \A e \in issued : e.key = env.ENCRYPTION_KEY => e.iv # calls[p].iv
           /\ \A q \in Procs \ {p} : DrewNonce(q) => calls[q].iv # calls[p].iv

\* the envelope an encrypt call at its last await is about to return
EnvelopeOf(c) == ToBase64(Combine(c.iv, c.pending.value))

\* C11 amended: every encrypt call draws its 12 bytes from the random
\* source, which may repeat; the envelope starts with those bytes, so two
\* encrypt calls on one plaintext under one key return different envelope
\* strings exactly when their nonces differ
C11_NonceDistinguishes ==
    /\ \A e \in issued :
          /\ Len(e.iv) = IV_LENGTH
          /\ e.iv \in Nonces
          /\ SliceIv(EnvelopeBytes(e.envelope)) = e.iv
    /\ \A p \in Procs : \A e \in issued :
          (DrewNonce(p) /\ e.key = env.ENCRYPTION_KEY /\ e.plaintext = calls[p].arg)
          => (EnvelopeOf(calls[p]) # e.envelope <=> calls[p].iv # e.iv)
    /\ \A p, q \in Procs :
          (DrewNonce(p) /\ DrewNonce(q) /\ calls[p].arg = calls[q].arg)
          => (EnvelopeOf(calls[p]) # EnvelopeOf(calls[q]) <=> calls[p].iv # calls[q].iv)

C11_Witness ==
    \E p \in Procs : \E e \in issued :
        /\ DrewNonce(p)
        /\ e.key = env.ENCRYPTION_KEY
        /\ e.plaintext = calls[p].arg
        /\ calls[p].iv # e.iv
        /\ EnvelopeOf(calls[p]) # e.envelope

IsLowerHex64(s) == Len(s) = 64 /\ \A i \in 1..Len(s) : s[i] \in (48..57) \cup (97..102)

\* C13: a key string that is not exactly 64 lower-case hexadecimal
\* characters makes the load of the configuration throw, and every encrypt,
\* decrypt or safeDecrypt call in flight or returned runs under a loaded
\* configuration whose key is the 64 lower-case hexadecimal characters of
\* the environment
C13_ValidatedBeforeUse ==
    /\ ~IsLowerHex64(processEnv) => env.status = "threw"
    /\ \A p \in Procs :
          calls[p].pc # "idle"
          => /\ env.status = "ok"
             /\ env.ENCRYPTION_KEY = processEnv
             /\ IsLowerHex64(env.ENCRYPTION_KEY)

C13_Witness ==
    /\ ~IsLowerHex64(processEnv)
    /\ \A i \in 1..Len(processEnv) : HexDigit(processEnv[i]) >= 0
    /\ Len(processEnv) = 64
    /\ env.status = "threw"
    /\ \A p \in Procs : calls[p].pc = "idle"
    /\ issued # {}

\* the caller of a returned server action got { success: false } or, from
\* the listing, an error and no rows
Refused(c) ==
    IF c.op = "list" THEN c.result.kind = "throw" /\ c.result.rows = {}
    ELSE c.result.kind = "value" /\ ~c.result.success

IsGlobalAdmin(session) == session.user = "user" /\ session.isGlobalAdmin = "true"

\* C14: a server action whose caller has no session, or a session whose
\* user is no global admin, ends refused: the four mutating actions return
\* success false, the listing gives no rows, and no step of such an action
\* changes the provider table
C14_OnlyGlobalAdminsManage ==
    /\ [](\A a \in AdminProcs :
            (acts[a].pc = "done" /\ ~IsGlobalAdmin(acts[a].session)) => Refused(acts[a]))
    /\ [][(\E a \in AdminProcs :
              acts'[a].pc \notin {"idle", "getSession"} /\ ~IsGlobalAdmin(acts'[a].session))
          => oauthProviders' = oauthProviders]_vars
    /\ [][oauthProviders' # oauthProviders
          => \E a \in AdminProcs :
                /\ acts[a].pc = "write"
                /\ IsGlobalAdmin(acts[a].session)
                /\ acts'[a].result.success]_vars

C14_Witness ==
    /\ oauthProviders # {}
    /\ acts[1].pc = "done"
    /\ acts[1].op = "delete"
    /\ acts[1].session = SessionOf("false")
    /\ \E r \in oauthProviders : r.id = acts[1].id
    /\ Refused(acts[1])

\* the proxy has answered the request
ProxyAnswered == request.proxied /\ request.pc \in {"route", "done"}

RECURSIVE FormUrlDecode(_, _)
FormUrlDecode(q, i) ==
    IF i > Len(q) THEN <<>>
    ELSE IF q[i] = 43 THEN <<32>> \o FormUrlDecode(q, i + 1)
    ELSE IF q[i] = 37 /\ i + 2 <= Len(q)
    THEN <<16 * HexDigit(q[i + 1]) + HexDigit(q[i + 2])>> \o FormUrlDecode(q, i + 3)
    ELSE <<q[i]>> \o FormUrlDecode(q, i + 1)

\* the response is a redirect to /login on the request's origin whose only
\* query parameter, callbackUrl, stands for the pathname
RedirectsToLogin(r) ==
    LET prefix == UrlOn(r.origin, PathLogin) \o CallbackUrlQuery
        query  == Drop(r.response.location, Len(prefix))
    IN  /\ r.response.kind = "redirect"
        /\ StartsWith(r.response.location, prefix)
        /\ \A i \in 1..Len(query) : query[i] \notin {38, 61, 35}
        /\ FormUrlDecode(query, 1) = TextEncode(r.pathname)

\* C16: a request without a session to a path that starts with /dashboard
\* or /system is redirected to /login with callbackUrl set to the pathname
\* and is never routed
C16_NoSessionRedirected ==
    (/\ request.pc \in {"route", "done"}
     /\ request.session.user = "null"
     /\ \E route \in protectedRoutes : StartsWith(request.pathname, route))
    => /\ RedirectsToLogin(request)
       /\ request.pc = "done"
       /\ request.page = "none"

AuthInstanceProviders ==
    genericOAuthConfig(allOAuthProviders, env, hasBuffer, oauthProviders)

\* C18: the provider configurations of the auth instance are those loaded
\* from the table when the process started; no step of a create, update,
\* delete or toggle changes them, only a restart does, and it loads what
\* the table then holds
C18_ProvidersFixedUntilRestart ==
    [][\/ genericOAuthConfig(allOAuthProviders', env', hasBuffer', oauthProviders')
            = AuthInstanceProviders
       \/ /\ \A a \in AdminProcs : acts[a].pc = "idle" /\ acts'[a].pc = "idle"
          /\ oauthProviders' = oauthProviders
          /\ genericOAuthConfig(allOAuthProviders', env', hasBuffer', oauthProviders')
                = LoadAuth(env', hasBuffer', providersQuery', oauthProviders')]_vars

C18_Witness ==
    /\ acts[1].pc = "done"
    /\ acts[1].op \in {"create", "update", "delete", "toggle"}
    /\ acts[1].result.success
    /\ AuthInstanceProviders # LoadAuth(env, hasBuffer, "rows", oauthProviders)
    /\ AuthInstanceProviders # {}

C20_ProviderIdImmutable ==
    [][\A r \in oauthProviders : \A r2 \in oauthProviders' :
          r2.id = r.id => r2.providerId = r.providerId]_vars

C20_Witness ==
    /\ acts[1].pc = "done"
    /\ acts[1].op = "update"
    /\ acts[1].result.success
    /\ acts[1].form.providerId = ProviderB
    /\ \E r \in oauthProviders :
          /\ r.id = acts[1].id
          /\ r.providerId = ProviderA
          /\ ~r.enabled

\* the page shows a document of the site it was opened on
OnSite(l) == l.location = l.origin

\* C21: for every value of the callbackUrl query parameter, what
\* useSafeCallbackUrl returns is the default path or a path on the same
\* site: pushing it after the sign-in never takes the browser to another
\* origin
C21_CallbackStaysOnSite ==
    /\ login.pc # "idle"
       => \/ login.callbackUrl = <<47>>
          \/ /\ login.callbackUrl = login.query
             /\ UrlOrigin(login.callbackUrl, login.origin) = OriginOf(login.origin)
    /\ login.pc = "pushed" => OnSite(login)

\* the run of the seed script has ended without an error
SeedDone == seed.pc = "done"

\* C22: after a run of the seed script a user with the configured email
\* exists, is a global admin and can sign in with the configured password,
\* whatever the table held before; and a run that finds the table as a run
\* with the same configuration left it changes no row
C22_SeedAppliesConfiguration ==
    /\ [](SeedDone
          => /\ \E u \in user : u.email = seed.adminEmail /\ u.isGlobalAdmin
             /\ CanSignIn(user, seed.adminEmail, seed.adminPassword))
    /\ [][(/\ seed.pc # "idle"
           /\ seed' # seed
           /\ \E u \in user : u.email = seed.adminEmail /\ u.isGlobalAdmin
           /\ CanSignIn(user, seed.adminEmail, seed.adminPassword))
          => user' = user]_vars

\* what decrypt gives when the first 12 of the bytes are the nonce and the
\* others the ciphertext followed by the tag
DecryptSplitAt12(key, bytes) ==
    LET opened == SubtleDecrypt(key, Take(bytes, 12), Drop(bytes, 12))
    IN  IF opened.kind = "throw" THEN opened
        ELSE [kind |-> "value", value |-> TextDecode(opened.value), error |-> ""]

\* C23: a decrypt or safeDecrypt call whose input decodes to bytes gives
\* what opening bytes 13.. under the nonce of bytes 1..12 gives, and fails
\* when there are fewer than 28 bytes; every prefix of fewer than 28 bytes
\* of an envelope that encrypt returned is rejected by decrypt
C23_SplitAndMinimumLength ==
    /\ \A p \in Procs :
          (Returned(p) /\ IsDecryptOp(calls[p].op))
          => LET combined == DecodeBase64(hasBuffer, calls[p].arg)
                 key      == getEncryptionKey(env.ENCRYPTION_KEY)
             IN  combined.kind = "value"
                 => /\ calls[p].result
                         = Settle(calls[p].op, DecryptSplitAt12(key.value, combined.value))
                    /\ Len(combined.value) < 28 => Failed(calls[p])
    /\ \A p \in Procs :
          (Returned(p) /\ calls[p].op = "encrypt" /\ calls[p].result.kind = "value")
          => LET bytes == EnvelopeBytes(calls[p].result.value)
                 key   == getEncryptionKey(env.ENCRYPTION_KEY)
             IN  \A n \in 0..27 :
                    n < Len(bytes)
                    => decryptWithKey(key, hasBuffer, ToBase64(Take(bytes, n))).kind = "throw"

C23_Witness ==
    \E p \in Procs :
        /\ Returned(p)
        /\ calls[p].op = "decrypt"
        /\ DecodeBase64(hasBuffer, calls[p].arg).kind = "value"
        /\ Len(DecodeBase64(hasBuffer, calls[p].arg).value) = 11
        /\ calls[p].result.kind = "throw"
        /\ calls[p].result.error = "OperationError"

\* the create or update of caller a has written a row with the secret its
\* form carried and has returned success
WroteSecret(a) ==
    /\ acts[a].pc = "done"
    /\ acts[a].op \in {"create", "update"}
    /\ acts[a].result.success
    /\ acts[a].clientSecret # FormNull

\* the row the action of caller a wrote
WrittenRows(a) ==
    IF acts[a].op = "create"
    THEN SelectByProviderId(oauthProviders, acts[a].form.providerId)
    ELSE SelectById(oauthProviders, acts[a].id)

\* C24: the clientSecret that a create or update writes is the envelope
\* encrypt returned for the submitted secret, not the secret itself, and
\* the listing taken after the action has returned success gives the
\* submitted secret for that provider
C24_SecretsStoredEncrypted ==
    \A a \in {1} :
        WroteSecret(a)
        => /\ WrittenRows(a) # {}
           /\ \A r \in WrittenRows(a) :
                 /\ r.clientSecret = acts[a].clientSecret
                 /\ r.clientSecret # acts[a].form.clientSecret
                 /\ \E iv \in Nonces :
                       r.clientSecret
                          = encrypt(env.ENCRYPTION_KEY, iv, acts[a].form.clientSecret).value
                 /\ ListEntry(env.ENCRYPTION_KEY, hasBuffer, r).row.clientSecret
                       = acts[a].form.clientSecret

\* the enabled rows of the table whose stored secret decrypt accepts under
\* the key of the configuration
Loadable(config, rows) ==
    {r \in rows :
        /\ r.enabled
        /\ decrypt(config.ENCRYPTION_KEY, hasBuffer, r.clientSecret).kind = "value"}

C26_EmptySecretKeepsStored ==
    /\ [][\A a \in AdminProcs :
            (/\ acts[a].op = "update"
             /\ acts[a].pc = "write"
             /\ acts'[a].pc = "done"
             /\ acts[a].form.clientSecret = <<>>)
            => /\ acts'[a].result = Success
               /\ \A r \in oauthProviders :
                     IF r.id = acts[a].id
                     THEN [r EXCEPT !.clientId = acts[a].form.clientId,
                                    !.enabled = IsOn(acts[a].form.enabled)]
                             \in oauthProviders'
                     ELSE r \in oauthProviders'
               /\ Cardinality(oauthProviders') = Cardinality(oauthProviders)]_vars
    /\ [][\A a \in AdminProcs :
            (/\ acts[a].op = "update"
             /\ acts[a].pc = "select"
             /\ acts'[a] # acts[a]
             /\ SelectById(oauthProviders, acts[a].id) = {})
            => /\ acts'[a].pc = "done"
               /\ acts'[a].result = Failure("Provider not found")
               /\ oauthProviders' = oauthProviders]_vars

C26_Witness ==
    /\ acts[1].pc = "done"
    /\ acts[1].op = "update"
    /\ acts[1].result.success
    /\ acts[1].form.clientSecret = <<>>
    /\ \E r \in oauthProviders :
          /\ r.id = acts[1].id
          /\ r.clientId = ClientD
          /\ ~r.enabled
          /\ decrypt(env.ENCRYPTION_KEY, hasBuffer, r.clientSecret).value = SecretS

\* C27: the admin never types the placeholder, and no stored clientSecret
\* decrypts to the placeholder under any key the process has run with
C27_PlaceholderNeverStored ==
    \A r \in oauthProviders : \A key \in WellFormedKeys :
        decrypt(key, hasBuffer, r.clientSecret).value # DecryptionFailed

====
